---- MODULE Spec2Model ----
(***************************************************************************)
(* Model of the git repository cache (gbp_repocache): CachedRepo handles   *)
(* opened by several processes on cache slots of one cache base directory. *)
(* The file system, the remote repositories and the advisory locks are the *)
(* shared state; every handle walks through CachedRepo.__init__ step by    *)
(* step, so that steps of different handles interleave.                    *)
(***************************************************************************)
EXTENDS Integers, Sequences, FiniteSets, TLC

\* ------------------------------------------------------------------ bounds
\* Number of CachedRepo objects that can be alive at the same time.
NumHandles == 2
Handles == 1..NumHandles
\* The handle objects all live in one process, or the first lives in a
\* process of its own.
Procs == { "p1", "p2" }

\* ------------------------------------------------------------------ urls
\* URLs are sequences of characters.
\* Two spellings of the address of one remote repository.
Urls == { <<"o", ":", "p", "/", "r">>, <<"o", ":", "p", "/", "r", "/">> }

\* str.rstrip('/')
RECURSIVE rstrip(_)
rstrip(s) ==
    IF Len(s) > 0 /\ s[Len(s)] = "/" THEN rstrip(SubSeq(s, 1, Len(s) - 1)) ELSE s

\* Index of the last occurrence of sep in s, 0 when there is none.
rfind(s, sep) ==
    LET idx == { i \in 1..Len(s) : s[i] = sep }
    IN  IF idx = {} THEN 0 ELSE CHOOSE i \in idx : \A j \in idx : j <= i

\* str.rsplit(sep, 1)
rsplit(s, sep) ==
    LET i == rfind(s, sep)
    IN  IF i = 0 THEN << s >>
        ELSE << SubSeq(s, 1, i - 1), SubSeq(s, i + 1, Len(s)) >>

\* A split that tries the colon before the slash.
split_url_colon_first(url) ==
    LET sanitized == rstrip(url)
        first == rsplit(sanitized, ":")
        split == IF Len(first) = 1 THEN rsplit(sanitized, "/") ELSE first
        base == IF Len(split) > 1 THEN split[1] ELSE << >>
        reponame == split[Len(split)]
    IN  << base, reponame >>

\* CachedRepo._split_url
split_url(url) ==
    LET sanitized == rstrip(url)
        first == rsplit(sanitized, "/")
        split == IF Len(first) = 1 THEN rsplit(sanitized, ":") ELSE first
        base == IF Len(split) > 1 THEN split[1] ELSE << >>
        reponame == split[Len(split)]
    IN  << base, reponame >>

\* hashlib.sha1(urlbase).hexdigest(): an injective tag of the base.
sha1_hexdigest(base) == << "sha1" >> \o base

\* A slot path without the subdirectory of the base.
repodir_flat(url) ==
    [subdir |-> << >>, reponame |-> split_url(url)[2]]

\* os.path.join(self._basedir, subdir, reponame), relative to the base dir.
repodir_of(url) ==
    LET s == split_url(url)
    IN  [subdir |-> sha1_hexdigest(s[1]), reponame |-> s[2]]

\* os.path.dirname(self._repodir)
dirname(d) == d.subdir

\* The slot paths the URLs resolve to.
SlotPaths == { repodir_of(u) : u \in Urls }

\* ------------------------------------------------------------------ state
None == "None"

\* A slot directory on disk.
\*   kind    "absent"     no directory at the slot path
\*           "unopenable" a directory that is no git repository any more
\*           "repo"       a directory git accepts as a repository
\*   bare    the repository's bare attribute
\*   broken  the repository opens, but a fetch from its origin fails
\*   content "empty"   nothing was fetched yet
\*           "stale"   the remote has commits the slot has not
\*           "current" the slot has every commit of the remote
\*   wc      the commit-ish the working copy was last reset to, or None
AbsentSlot ==
    [kind |-> "absent", bare |-> FALSE, broken |-> FALSE, content |-> "empty", wc |-> None]
UnopenableSlot ==
    [kind |-> "unopenable", bare |-> FALSE, broken |-> FALSE, content |-> "empty", wc |-> None]

\* self._repo = None
NoRepo == [set |-> FALSE, bare |-> FALSE]
\* A MirrorGitRepository object with its bare attribute.
RepoObj(bare) == [set |-> TRUE, bare |-> bare]

CachedRepoError == "CachedRepoError"

VARIABLES
    pc,         \* pc[h]: where handle h is in its life
    hbare,      \* hbare[h]: the bare argument while __init__ runs
    repodir,    \* repodir[h]: self._repodir
    lock,       \* lock[h]: self._lock - None, "open" (file opened) or "held"
    repo,       \* repo[h]: self._repo
    last,       \* last[h]: how the last call on h ended: None (returned
                \* nothing), "value", or the name of the exception raised
    proc,       \* proc[h]: the process the handle object lives in
    slot,       \* slot[d]: the slot directory at path d
    subdirs,    \* the cache subdirectories that exist
    lockfiles,  \* the slot paths whose lock file exists
    writable,   \* the cache directories may be written by the caller
    net         \* the remote can be reached

hvars == << pc, hbare, repodir, lock, repo, last, proc >>
fsvars == << slot, subdirs, lockfiles >>
envvars == << writable, net >>
vars == << pc, hbare, repodir, lock, repo, last, proc,
           slot, subdirs, lockfiles, writable, net >>

NoDir == [subdir |-> << >>, reponame |-> << >>]

\* No CachedRepo object is built and the cache directory is empty.
CacheInit ==
    /\ pc = [h \in Handles |-> "new"]
    /\ hbare = [h \in Handles |-> FALSE]
    /\ repodir = [h \in Handles |-> NoDir]
    /\ lock = [h \in Handles |-> None]
    /\ repo = [h \in Handles |-> NoRepo]
    /\ last = [h \in Handles |-> None]
    /\ proc \in { [h \in Handles |-> "p1"],
                  [h \in Handles |-> IF h = 1 THEN "p1" ELSE "p2"] }
    /\ slot = [d \in SlotPaths |-> AbsentSlot]
    /\ subdirs = {}
    /\ lockfiles = {}
    /\ writable = TRUE
    /\ net = TRUE

\* ------------------------------------------- one repository, git's view
\* The second part of the model follows one handle on one slot through the
\* git operations of MirrorGitRepository and CachedRepo.update_working_copy.
\* The remote has a branch master with the commits c1 <- c2; its HEAD names
\* master, or a branch that does not exist.
VARIABLES
    step,           \* where the running call is
    handle,         \* "none", "open" or "closed": the CachedRepo object
    bare_mode,      \* the bare argument of the opens
    refs_hack,      \* the refs_hack argument of the running open
    HEAD,           \* the local HEAD, None while the slot has no repository
    FETCH_HEAD,     \* the local FETCH_HEAD, None while there is none
    refs,           \* GIT_DIR/refs: "dir", or a symlink to "alt" (refs.alt)
                    \* or to "fetch" (refs.alt/fetch)
    packed_refs,    \* GIT_DIR/packed-refs exists
    origin,         \* the repository has its remote 'origin'
    master,         \* the commit of the fetched branch master, or None
    worktree,       \* the commit whose files are checked out, or None
    untracked,      \* files git does not track lie in the working copy
    remote_master,  \* the commit of the remote's branch master
    remote_head_ok, \* the remote's HEAD names an existing branch
    orig_head,      \* force_fetch: the saved value of HEAD
    exc,            \* force_fetch: the exception on its way out, or None
    rev,            \* update_working_copy: its commitish argument
    submodules,     \* update_working_copy: its submodules argument
    sha,            \* update_working_copy: the resolved commit id
    result          \* how the last call ended: [exc, val, arg]

callvars == << step, handle, bare_mode, refs_hack, orig_head, exc, rev,
               submodules, sha, result >>
gitdirvars == << HEAD, FETCH_HEAD, refs, packed_refs, origin, master, worktree,
                untracked >>
remotevars == << remote_master, remote_head_ok >>
gitvars == << step, handle, bare_mode, refs_hack, orig_head, exc, rev,
              submodules, sha, result,
              HEAD, FETCH_HEAD, refs, packed_refs, origin, master, worktree,
              untracked, remote_master, remote_head_ok >>

\* A call that has not ended in anything yet.
NoResult == [exc |-> None, val |-> None, arg |-> None]

\* No repository on disk, no handle, no call running.
GitInit ==
    /\ step = "idle"
    /\ handle = "none"
    /\ bare_mode \in BOOLEAN
    /\ refs_hack = FALSE
    /\ HEAD = None
    /\ FETCH_HEAD = None
    /\ refs = "dir"
    /\ packed_refs = FALSE
    /\ origin = FALSE
    /\ master = None
    /\ worktree = None
    /\ untracked = FALSE
    /\ remote_master = "c1"
    /\ remote_head_ok \in BOOLEAN
    /\ orig_head = None
    /\ exc = None
    /\ rev = None
    /\ submodules = FALSE
    /\ sha = None
    /\ result = NoResult

\* The first part of the model leaves the git view alone.
GitUnused == GitInit /\ ~bare_mode /\ remote_head_ok

\* ------------------------------------------- the source service, main()
\* The third part of the model follows runs of the service's main function
\* (obs_service_gbp.command) on the slot of the git view: the open, the
\* update of the working copy, gbp_export and write_treeish_meta.
VARIABLES
    mstep,          \* where main is
    args_revision,  \* args.revision: the commit-ish, then the resolved id
    uid,            \* gbp_export: the numerical uid/gid, -1 when none is set
    tmp_out,        \* gbp_export: the temporary directory, [exists, files]
    outdir,         \* args.outdir: [exists, files]
    ran,            \* what this run has done: the exporters ("rpm", "deb")
                    \* and the writer ("meta") it has invoked, and whether
                    \* it has put files into the output directory ("placed")
    pending,        \* gbp_export: the exception on its way out, or None
    ret             \* how main ended: [code, exc]

svcvars == << mstep, args_revision, uid, tmp_out, outdir, ran, pending, ret >>

\* main has not ended.
NoRet == [code |-> None, exc |-> None]
\* No directory.
NoDirectory == [exists |-> FALSE, files |-> {}]
\* No exception is on its way out of gbp_export.
NoPending == [exc |-> None, code |-> None]

\* No run of the service has started and the output directory is not there.
SvcInit ==
    /\ mstep = "start"
    /\ args_revision = None
    /\ uid = -1
    /\ tmp_out = NoDirectory
    /\ outdir = NoDirectory
    /\ ran = {}
    /\ pending = NoPending
    /\ ret = NoRet

\* ------------------------------------------------- the helper functions
\* The last part of the model follows single calls of the helpers:
\* write_treeish_meta and fork_call (obs_service_gbp_utils), the slot path
\* of CachedRepo.__init__, and set_ref, get_ref and get_tag_info of
\* MirrorGitRepository.
VARIABLES
    wtm,        \* the call of write_treeish_meta
    outfiles,   \* the files of the output directory: name -> content
    fork,       \* the call of fork_call(user, group, func)()
    resolve,    \* two URLs and the slot paths they resolve to
    gitrefs,    \* the refs of a repository: name -> what the ref file holds
    refcall,    \* the last call of set_ref / get_ref
    taginfo     \* the call of get_tag_info

utilvars == << wtm, outfiles, fork, resolve, gitrefs, refcall, taginfo >>

\* A function with no argument: no file, no ref, no key.
Empty == [k \in {} |-> << >>]

\* No call of write_treeish_meta has been made.
WtmIdle ==
    [pos |-> "idle", treeish |-> None, outdir |-> None, filepath |-> None,
     meta |-> Empty, exc |-> None]

\* No call of fork_call has been made.
ForkIdle ==
    [pos |-> "idle", user |-> None, group |-> None, func |-> None,
     uid |-> -1, gid |-> -1, privileged |-> FALSE, ruid |-> -1, rgid |-> -1,
     queue |-> << >>, exitcode |-> -1, ran_in |-> None, exc |-> None, typ |-> None, val |-> None]

\* No URL has been resolved.
ResolveIdle == [done |-> FALSE, root |-> None, urls |-> << >>, paths |-> << >>]

\* No ref call has been made.
RefIdle == [fn |-> None, ref |-> None, value |-> None, exc |-> None, val |-> None]

\* No call of get_tag_info has been made.
\* The tagger get_tag_info starts with.
NoTagger == [name |-> None, email |-> None, date |-> None]
\* No object.
NoTag == [is_tag |-> FALSE, has_tagger |-> FALSE, msg |-> << >>]
TagIdle ==
    [pos |-> "idle", tag |-> NoTag, exc |-> None, tagger |-> NoTagger,
     tagname |-> None, subject |-> << >>, body |-> << >>]

\* No helper is called.
UtilInit ==
    /\ wtm = WtmIdle
    /\ outfiles = Empty
    /\ fork = ForkIdle
    /\ resolve = ResolveIdle
    /\ gitrefs = Empty
    /\ refcall = RefIdle
    /\ taginfo = TagIdle

Init == CacheInit /\ GitUnused /\ SvcInit /\ UtilInit

\* The second part follows one handle, in one process.
GitSpecInit ==
    /\ CacheInit
    /\ proc = [h \in Handles |-> "p1"]
    /\ GitInit
    /\ SvcInit
    /\ UtilInit

\* The third part: one process, whose opens ask for a working copy.
MainInit ==
    /\ CacheInit
    /\ proc = [h \in Handles |-> "p1"]
    /\ GitInit
    /\ ~bare_mode
    /\ SvcInit
    /\ UtilInit

\* ------------------------------------------------------------ the lock
\* The other handles whose lock file is the one handle h uses.
SameLockFile(h) == { o \in Handles \ {h} : pc[o] # "new" /\ repodir[o] = repodir[h] }

\* fcntl.lockf semantics: a lock owned by the process, not by the open file.
lockf_grantable(h) ==
    \A o \in SameLockFile(h) : proc[o] # proc[h] => lock[o] # "held"

\* A lock call that does not wait for the holder.
noflock_grantable(h) == TRUE

\* fcntl.flock(self._lock, fcntl.LOCK_EX) returns: no other open file of the
\* lock file, of whatever process, holds the exclusive lock.
flock_grantable(h) ==
    \A o \in SameLockFile(h) : lock[o] # "held"

\* CachedRepo._release_lock
release_lock(h) == [lock EXCEPT ![h] = None]

\* --------------------------------------------------------- construction
\* __init__ raises CachedRepoError: the caller gets no handle.
Raise(h) ==
    /\ last' = [last EXCEPT ![h] = CachedRepoError]
    /\ hbare' = [hbare EXCEPT ![h] = FALSE]
    /\ pc' = [pc EXCEPT ![h] = "failed"]

\* __init__ returns the handle.
Return(h) ==
    /\ hbare' = [hbare EXCEPT ![h] = FALSE]
    /\ pc' = [pc EXCEPT ![h] = "ready"]
    /\ UNCHANGED last

\* CachedRepo.__init__ up to the call of _init_cache_dir.
Construct(h, url, bare) ==
    /\ pc[h] = "new"
    /\ hbare' = [hbare EXCEPT ![h] = bare]
    /\ repodir' = [repodir EXCEPT ![h] = repodir_of(url)]
    /\ pc' = [pc EXCEPT ![h] = "init_cache_dir"]
    /\ UNCHANGED << proc, lock, repo, last, fsvars, envvars >>

\* CachedRepo._init_cache_dir: the test for the subdirectory.
InitCacheDir(h) ==
    /\ pc[h] = "init_cache_dir"
    /\ pc' = [pc EXCEPT ![h] =
                IF dirname(repodir[h]) \in subdirs THEN "acquire" ELSE "makedirs"]
    /\ UNCHANGED << proc, hbare, repodir, lock, repo, last, fsvars, envvars >>

\* An _init_cache_dir that passes over the OSError of os.makedirs.
MakeDirsIgnoreErrors(h) ==
    /\ pc[h] = "makedirs"
    /\ subdirs' = IF writable THEN subdirs \cup { dirname(repodir[h]) } ELSE subdirs
    /\ pc' = [pc EXCEPT ![h] = "acquire"]
    /\ UNCHANGED << proc, hbare, repodir, lock, repo, last, slot, lockfiles, envvars >>

\* CachedRepo._init_cache_dir: os.makedirs, which fails when the directory
\* cannot be created or has appeared since the test.
MakeDirs(h) ==
    /\ pc[h] = "makedirs"
    /\ IF writable /\ dirname(repodir[h]) \notin subdirs
       THEN /\ subdirs' = subdirs \cup { dirname(repodir[h]) }
            /\ pc' = [pc EXCEPT ![h] = "acquire"]
            /\ UNCHANGED << hbare, last >>
       ELSE /\ Raise(h)
            /\ UNCHANGED subdirs
    /\ UNCHANGED << proc, repodir, lock, repo, slot, lockfiles, envvars >>

\* An _acquire_lock that opens the lock file and never calls flock.
OpenLockFileNoFlock(h) ==
    /\ pc[h] = "acquire"
    /\ IF repodir[h] \in lockfiles \/ writable
       THEN /\ lock' = [lock EXCEPT ![h] = "open"]
            /\ lockfiles' = lockfiles \cup { repodir[h] }
            /\ pc' = [pc EXCEPT ![h] = "inspect"]
            /\ UNCHANGED << hbare, last >>
       ELSE /\ Raise(h)
            /\ UNCHANGED << lock, lockfiles >>
    /\ UNCHANGED << proc, repodir, repo, slot, subdirs, envvars >>

\* CachedRepo._acquire_lock: open(repodir + '.lock', 'w').
OpenLockFile(h) ==
    /\ pc[h] = "acquire"
    /\ IF repodir[h] \in lockfiles \/ writable
       THEN /\ lock' = [lock EXCEPT ![h] = "open"]
            /\ lockfiles' = lockfiles \cup { repodir[h] }
            /\ pc' = [pc EXCEPT ![h] = "flock"]
            /\ UNCHANGED << hbare, last >>
       ELSE /\ Raise(h)
            /\ UNCHANGED << lock, lockfiles >>
    /\ UNCHANGED << proc, repodir, repo, slot, subdirs, envvars >>

\* CachedRepo._acquire_lock: fcntl.flock blocks until the lock is granted.
AcquireLock(h) ==
    /\ pc[h] = "flock"
    /\ flock_grantable(h)
    /\ lock' = [lock EXCEPT ![h] = "held"]
    /\ pc' = [pc EXCEPT ![h] = "inspect"]
    /\ UNCHANGED << proc, hbare, repodir, repo, last, fsvars, envvars >>

\* ------------------------------------------------- validate, fetch, clone
\* os.path.exists(self._repodir)
slot_exists(d) == slot[d].kind # "absent"

\* MirrorGitRepository(self._repodir) with GitRepositoryError passed over:
\* the repository object, or None when the directory is no git repository.
open_repo(d) ==
    IF slot[d].kind = "repo" THEN RepoObj(slot[d].bare) ELSE NoRepo

\* A validation that only looks at whether the slot opened.
needs_removal_unopened_only(r, bare) == ~r.set

\* A validation that never accepts an existing slot.
needs_removal_always(r, bare) == TRUE

\* not self._repo or self._repo.bare != bare
needs_removal(r, bare) == ~r.set \/ r.bare # bare

\* An _init_git_repo that does not pass over the GitRepositoryError of
\* opening the slot: a slot that is no repository ends the construction.
InspectSlotNoCatch(h) ==
    /\ pc[h] = "inspect"
    /\ IF ~slot_exists(repodir[h])
       THEN /\ pc' = [pc EXCEPT ![h] = "clone"]
            /\ UNCHANGED << repo, hbare, last >>
       ELSE LET r == open_repo(repodir[h])
            IN  IF ~r.set
                THEN Raise(h) /\ UNCHANGED repo
                ELSE IF needs_removal(r, hbare[h])
                THEN /\ repo' = [repo EXCEPT ![h] = NoRepo]
                     /\ pc' = [pc EXCEPT ![h] = "rmtree"]
                     /\ UNCHANGED << hbare, last >>
                ELSE /\ repo' = [repo EXCEPT ![h] = r]
                     /\ pc' = [pc EXCEPT ![h] = "fetch"]
                     /\ UNCHANGED << hbare, last >>
    /\ UNCHANGED << proc, repodir, lock, fsvars, envvars >>

\* The start of _init_git_repo after the lock: the existence test, the
\* attempt to open the slot and the choice between removal, fetch and clone.
InspectSlot(h) ==
    /\ pc[h] = "inspect"
    /\ IF ~slot_exists(repodir[h])
       THEN /\ pc' = [pc EXCEPT ![h] = "clone"]
            /\ UNCHANGED repo
       ELSE LET r == open_repo(repodir[h])
            IN  IF needs_removal(r, hbare[h])
                THEN /\ repo' = [repo EXCEPT ![h] = NoRepo]
                     /\ pc' = [pc EXCEPT ![h] = "rmtree"]
                ELSE /\ repo' = [repo EXCEPT ![h] = r]
                     /\ pc' = [pc EXCEPT ![h] = "fetch"]
    /\ UNCHANGED << proc, hbare, repodir, lock, last, fsvars, envvars >>

\* shutil.rmtree with its error ignored: the construction goes on to clone.
RemoveSlotIgnoreErrors(h) ==
    /\ pc[h] = "rmtree"
    /\ slot' = IF writable THEN [slot EXCEPT ![repodir[h]] = AbsentSlot] ELSE slot
    /\ pc' = [pc EXCEPT ![h] = "clone"]
    /\ UNCHANGED << proc, hbare, repodir, lock, repo, last, subdirs, lockfiles, envvars >>

\* shutil.rmtree(self._repodir): an OSError becomes CachedRepoError.
RemoveSlot(h) ==
    /\ pc[h] = "rmtree"
    /\ IF writable
       THEN /\ slot' = [slot EXCEPT ![repodir[h]] = AbsentSlot]
            /\ pc' = [pc EXCEPT ![h] = "clone"]
            /\ UNCHANGED << hbare, last >>
       ELSE /\ Raise(h)
            /\ UNCHANGED slot
    /\ UNCHANGED << proc, repodir, lock, repo, subdirs, lockfiles, envvars >>

\* The git fetch of force_fetch succeeds: the remote answers and the local
\* repository is in a state git can fetch into.
fetch_succeeds(d) == net /\ slot[d].kind = "repo" /\ ~slot[d].broken

\* A fetch failure handled like a corrupted slot: remove and clone.
ForceFetchOrReclone(h) ==
    /\ pc[h] = "fetch"
    /\ IF fetch_succeeds(repodir[h])
       THEN /\ slot' = [slot EXCEPT ![repodir[h]].content = "current"]
            /\ Return(h)
            /\ UNCHANGED repo
       ELSE /\ repo' = [repo EXCEPT ![h] = NoRepo]
            /\ pc' = [pc EXCEPT ![h] = "rmtree"]
            /\ UNCHANGED << slot, hbare, last >>
    /\ UNCHANGED << proc, repodir, lock, subdirs, lockfiles, envvars >>

\* self._repo.force_fetch(refs_hack) in _init_git_repo: a GitRepositoryError
\* becomes CachedRepoError, and the construction ends there.
ForceFetch(h) ==
    /\ pc[h] = "fetch"
    /\ IF fetch_succeeds(repodir[h])
       THEN /\ slot' = [slot EXCEPT ![repodir[h]].content = "current"]
            /\ Return(h)
       ELSE /\ Raise(h)
            /\ UNCHANGED slot
    /\ UNCHANGED << proc, repodir, lock, repo, subdirs, lockfiles, envvars >>

\* The slot a clone leaves behind when the slot path is free.
\*   bare: git clone --mirror creates the slot or removes what it created;
\*   non-bare: create(path), add_remote_repo, set_config, force_fetch - a
\*   failed fetch leaves the freshly created empty repository on disk.
cloned_slot(d, bare) ==
    IF ~writable THEN slot[d]
    ELSE IF net THEN [kind |-> "repo", bare |-> bare, broken |-> FALSE,
                      content |-> "current", wc |-> None]
    ELSE IF bare THEN slot[d]
    ELSE [kind |-> "repo", bare |-> FALSE, broken |-> FALSE,
          content |-> "empty", wc |-> None]

clone_succeeds(d) == writable /\ net /\ ~slot_exists(d)

\* The clone branch of _init_git_repo, entered when self._repo is not set.
Clone(h) ==
    /\ pc[h] = "clone"
    /\ slot' = [slot EXCEPT ![repodir[h]] =
                    IF slot_exists(repodir[h]) THEN @
                    ELSE cloned_slot(repodir[h], hbare[h])]
    /\ IF clone_succeeds(repodir[h])
       THEN /\ repo' = [repo EXCEPT ![h] = RepoObj(hbare[h])]
            /\ Return(h)
       ELSE /\ Raise(h)
            /\ UNCHANGED repo
    /\ UNCHANGED << proc, repodir, lock, subdirs, lockfiles, envvars >>

\* ------------------------------------------------ calls on a built handle
\* A commit-ish that resolves and one that does not.
Commitish == { "HEAD", "foo/bar" }

\* A check that lets every call through.
check_instance_off(h) == TRUE

\* CachedRepo._check_instance passes: self._lock is set.
check_instance(h) == lock[h] # None

\* The call on h ends with res: "value", None or the exception raised.
Called(h, res) == last' = [last EXCEPT ![h] = res]

\* The repo property.
GetRepo(h) ==
    /\ pc[h] = "ready"
    /\ Called(h, IF check_instance(h) THEN "value" ELSE CachedRepoError)
    /\ UNCHANGED << proc, pc, hbare, repodir, lock, repo, fsvars, envvars >>

\* The repodir property.
GetRepodir(h) ==
    /\ pc[h] = "ready"
    /\ Called(h, IF check_instance(h) THEN "value" ELSE CachedRepoError)
    /\ UNCHANGED << proc, pc, hbare, repodir, lock, repo, fsvars, envvars >>

\* rev_parse of a commit-ish once HEAD is set from FETCH_HEAD.
rev_parse_ok(commitish) == commitish = "HEAD"

\* CachedRepo.update_working_copy
UpdateWorkingCopy(h, commitish) ==
    /\ pc[h] = "ready"
    /\ LET d == repodir[h]
       IN  IF ~check_instance(h)
           THEN Called(h, CachedRepoError) /\ UNCHANGED slot
           ELSE IF ~repo[h].set
           THEN Called(h, "AttributeError") /\ UNCHANGED slot
           ELSE IF repo[h].bare
           THEN Called(h, CachedRepoError) /\ UNCHANGED slot
           ELSE IF slot[d].kind # "repo" \/ slot[d].content = "empty"
           THEN Called(h, "GitRepositoryError") /\ UNCHANGED slot
           ELSE IF ~rev_parse_ok(commitish)
           THEN Called(h, CachedRepoError) /\ UNCHANGED slot
           ELSE /\ slot' = [slot EXCEPT ![d].wc = commitish]
                /\ Called(h, "value")
    /\ UNCHANGED << proc, pc, hbare, repodir, lock, repo, subdirs, lockfiles, envvars >>

\* A close that releases the lock and keeps the repository reference.
CloseKeepRepo(h) ==
    /\ pc[h] = "ready"
    /\ lock' = release_lock(h)
    /\ Called(h, None)
    /\ UNCHANGED << proc, pc, hbare, repodir, repo, fsvars, envvars >>

\* CachedRepo.close
Close(h) ==
    /\ pc[h] = "ready"
    /\ lock' = release_lock(h)
    /\ repo' = [repo EXCEPT ![h] = NoRepo]
    /\ Called(h, None)
    /\ UNCHANGED << proc, pc, hbare, repodir, fsvars, envvars >>

\* A destructor that leaves the lock as it is.
DestroyKeepLock(h) ==
    /\ pc[h] \in { "ready", "failed" }
    /\ pc' = [pc EXCEPT ![h] = "new"]
    /\ hbare' = [hbare EXCEPT ![h] = FALSE]
    /\ repodir' = [repodir EXCEPT ![h] = NoDir]
    /\ repo' = [repo EXCEPT ![h] = NoRepo]
    /\ last' = [last EXCEPT ![h] = None]
    /\ UNCHANGED << proc, lock, fsvars, envvars >>

\* CachedRepo.__del__: the object is destroyed, after its constructor raised
\* or after the caller dropped it; its identity is free for a new object.
Destroy(h) ==
    /\ pc[h] \in { "ready", "failed" }
    /\ pc' = [pc EXCEPT ![h] = "new"]
    /\ lock' = release_lock(h)
    /\ hbare' = [hbare EXCEPT ![h] = FALSE]
    /\ repodir' = [repodir EXCEPT ![h] = NoDir]
    /\ repo' = [repo EXCEPT ![h] = NoRepo]
    /\ last' = [last EXCEPT ![h] = None]
    /\ UNCHANGED << proc, fsvars, envvars >>

\* ------------------------------------------------------- the environment
\* Commits are pushed to the remote: a slot that had them all is behind.
RemoteCommit(d) ==
    /\ slot[d].kind = "repo"
    /\ slot[d].content = "current"
    /\ slot' = [slot EXCEPT ![d].content = "stale"]
    /\ UNCHANGED << hvars, subdirs, lockfiles, envvars >>

\* The remote becomes unreachable (moved away) or reachable again.
SetNet(b) ==
    /\ net # b
    /\ net' = b
    /\ UNCHANGED << hvars, fsvars, writable >>

\* chmod of the cache directories: write permission taken away or given back.
Chmod(b) ==
    /\ writable # b
    /\ writable' = b
    /\ UNCHANGED << hvars, fsvars, net >>

\* The slot is damaged so that git no longer accepts it as a repository
\* (its refs directory is deleted).
CorruptRefs(d) ==
    /\ slot[d].kind = "repo"
    /\ slot' = [slot EXCEPT ![d] = UnopenableSlot]
    /\ UNCHANGED << hvars, subdirs, lockfiles, envvars >>

\* The slot is damaged so that it still opens as a repository of its mode
\* but cannot be fetched into (its origin remote or objects are lost).
CorruptOrigin(d) ==
    /\ slot[d].kind = "repo"
    /\ ~slot[d].broken
    /\ slot' = [slot EXCEPT ![d].broken = TRUE]
    /\ UNCHANGED << hvars, subdirs, lockfiles, envvars >>

\* ------------------------------------------------------ the specification
Next ==
    \/ \E h \in Handles, url \in Urls, bare \in BOOLEAN : Construct(h, url, bare)
            /\ UNCHANGED << gitvars, svcvars, utilvars >>
    \/ \E h \in Handles : InitCacheDir(h)
            /\ UNCHANGED << gitvars, svcvars, utilvars >>
    \/ \E h \in Handles : MakeDirs(h)
            /\ UNCHANGED << gitvars, svcvars, utilvars >>
    \/ \E h \in Handles : OpenLockFile(h)
            /\ UNCHANGED << gitvars, svcvars, utilvars >>
    \/ \E h \in Handles : AcquireLock(h)
            /\ UNCHANGED << gitvars, svcvars, utilvars >>
    \/ \E h \in Handles : InspectSlot(h)
            /\ UNCHANGED << gitvars, svcvars, utilvars >>
    \/ \E h \in Handles : RemoveSlot(h)
            /\ UNCHANGED << gitvars, svcvars, utilvars >>
    \/ \E h \in Handles : ForceFetch(h)
            /\ UNCHANGED << gitvars, svcvars, utilvars >>
    \/ \E h \in Handles : Clone(h)
            /\ UNCHANGED << gitvars, svcvars, utilvars >>
    \/ \E h \in Handles : GetRepo(h)
            /\ UNCHANGED << gitvars, svcvars, utilvars >>
    \/ \E h \in Handles : GetRepodir(h)
            /\ UNCHANGED << gitvars, svcvars, utilvars >>
    \/ \E h \in Handles, c \in Commitish : UpdateWorkingCopy(h, c)
            /\ UNCHANGED << gitvars, svcvars, utilvars >>
    \/ \E h \in Handles : Close(h)
            /\ UNCHANGED << gitvars, svcvars, utilvars >>
    \/ \E h \in Handles : Destroy(h)
            /\ UNCHANGED << gitvars, svcvars, utilvars >>
    \/ \E d \in SlotPaths : RemoteCommit(d)
            /\ UNCHANGED << gitvars, svcvars, utilvars >>
    \/ \E b \in BOOLEAN : SetNet(b)
            /\ UNCHANGED << gitvars, svcvars, utilvars >>
    \/ \E b \in BOOLEAN : Chmod(b)
            /\ UNCHANGED << gitvars, svcvars, utilvars >>
    \/ \E d \in SlotPaths : CorruptRefs(d)
            /\ UNCHANGED << gitvars, svcvars, utilvars >>
    \/ \E d \in SlotPaths : CorruptOrigin(d)
            /\ UNCHANGED << gitvars, svcvars, utilvars >>

Spec == Init /\ [][Next]_vars


\* ------------------------------------------------- the lock over time
\* The process p exits: its objects are gone, wherever their calls were,
\* and its open files are closed, which takes the locks flock gave them.
ProcessExit(p) ==
    /\ \E h \in Handles : proc[h] = p /\ pc[h] # "new"
    /\ pc' = [h \in Handles |-> IF proc[h] = p THEN "new" ELSE pc[h]]
    /\ lock' = [h \in Handles |-> IF proc[h] = p THEN None ELSE lock[h]]
    /\ hbare' = [h \in Handles |-> IF proc[h] = p THEN FALSE ELSE hbare[h]]
    /\ repodir' = [h \in Handles |-> IF proc[h] = p THEN NoDir ELSE repodir[h]]
    /\ repo' = [h \in Handles |-> IF proc[h] = p THEN NoRepo ELSE repo[h]]
    /\ last' = [h \in Handles |-> IF proc[h] = p THEN None ELSE last[h]]
    /\ UNCHANGED << proc, fsvars, envvars >>

LockNext ==
    \/ Next
    \/ \E p \in Procs : ProcessExit(p)
            /\ UNCHANGED << gitvars, svcvars, utilvars >>

\* The steps of a constructor that is not waiting for the lock.
ConstructorStep(h) ==
    \/ InitCacheDir(h)
    \/ MakeDirs(h)
    \/ OpenLockFile(h)
    \/ InspectSlot(h)
    \/ RemoveSlot(h)
    \/ ForceFetch(h)
    \/ Clone(h)

\* Every constructor goes on, every object that was built or failed to
\* build is destroyed in the end, and a caller waiting in flock that can
\* be given the lock again and again is given it.
LockFairness ==
    \A h \in Handles :
        /\ WF_vars(ConstructorStep(h))
        /\ WF_vars(Destroy(h))
        /\ SF_vars(AcquireLock(h))

LockSpec == Init /\ [][LockNext]_vars /\ LockFairness

\* ------------------------------------------- force_fetch, clone and open
\* The id set_ref writes to FETCH_HEAD when the remote's HEAD is invalid.
Zero == "0000000000000000000000000000000000000000"
\* The branch HEAD names while a fetch runs.
TmpHead == "refs/heads/non-existent-tmp-for-fetching"
\* The branch HEAD names in a repository that was just created.
MasterRef == "refs/heads/master"
\* The commits of the remote: c1, and its child c2.
Commits == { "c1", "c2" }
GitRepositoryError == "GitRepositoryError"
OSError == "OSError"

\* refs/heads/master as git resolves it: while refs is the symlink to
\* refs.alt the fetched branches lie under refs/fetch/.
local_master == IF refs = "alt" THEN None ELSE master

\* The call ends: with exception e, or with value v; a names the revision
\* the exception is about.
Ends(e, v, a) ==
    /\ result' = [exc |-> e, val |-> v, arg |-> a]
    /\ step' = "idle"

\* _init_git_repo once the lock is held: an existing slot of the requested
\* mode is fetched into, a missing one is cloned.
OpenRepo(hack) ==
    /\ step = "idle"
    /\ handle # "open"
    /\ handle' = "none"
    /\ refs_hack' = hack
    /\ exc' = None
    /\ result' = NoResult
    /\ step' = IF HEAD # None THEN "ff_head"
               ELSE IF bare_mode THEN "clone_mirror" ELSE "clone_create"
    /\ UNCHANGED << bare_mode, orig_head, rev, submodules, sha,
                    gitdirvars, remotevars, net >>

\* MirrorGitRepository.clone with bare: git clone --mirror, which leaves
\* nothing behind when it fails.
CloneMirror ==
    /\ step = "clone_mirror"
    /\ IF net
       THEN /\ HEAD' = MasterRef
            /\ master' = remote_master
            /\ packed_refs' = TRUE
            /\ origin' = TRUE
            /\ handle' = "open"
            /\ Ends(None, "handle", None)
       ELSE /\ Ends(CachedRepoError, None, None)
            /\ UNCHANGED << HEAD, master, packed_refs, origin, handle >>
    /\ refs_hack' = FALSE
    /\ UNCHANGED << bare_mode, orig_head, exc, rev, submodules, sha,
                    FETCH_HEAD, refs, worktree, untracked, remotevars, net >>

\* MirrorGitRepository.clone without bare: create(path). Its failure is a
\* GitRepositoryError, which _init_git_repo raises as CachedRepoError, and
\* leaves no repository at the slot path.
CloneCreate(ok) ==
    /\ step = "clone_create"
    /\ IF ok
       THEN HEAD' = MasterRef /\ step' = "clone_remote" /\ UNCHANGED result
       ELSE Ends(CachedRepoError, None, None) /\ UNCHANGED HEAD
    /\ UNCHANGED << handle, bare_mode, refs_hack, orig_head, exc, rev, submodules,
                    sha, FETCH_HEAD, refs, packed_refs, origin, master, worktree,
                    untracked, remotevars, net >>

\* The call of the non-bare clone that fails between create and
\* force_fetch, "ok" when none does.
CloneOutcomes == { "ok", "add_remote_repo", "set_config" }

\* MirrorGitRepository.clone without bare: add_remote_repo('origin', url)
\* and set_config, before force_fetch. A git command that fails raises
\* GitRepositoryError, which ends the clone with the repository that
\* create has made left at the slot path: without its remote when
\* add_remote_repo has failed.
CloneAddRemote(outcome) ==
    /\ step = "clone_remote"
    /\ origin' = (outcome # "add_remote_repo")
    /\ IF outcome = "ok"
       THEN step' = "ff_head" /\ UNCHANGED result
       ELSE Ends(CachedRepoError, None, None)
    /\ UNCHANGED << handle, bare_mode, refs_hack, orig_head, exc, rev, submodules,
                    sha, HEAD, FETCH_HEAD, refs, packed_refs, master, worktree,
                    untracked, remotevars, net >>

\* force_fetch: HEAD is saved and set to the temporary branch.
FfSaveHead ==
    /\ step = "ff_head"
    /\ orig_head' = HEAD
    /\ HEAD' = TmpHead
    /\ step' = "ff_refs"
    /\ UNCHANGED << handle, bare_mode, refs_hack, exc, rev, submodules, sha, result,
                    FETCH_HEAD, refs, packed_refs, origin, master, worktree, untracked,
                    remotevars, net >>

\* force_fetch: the refspec of the all-refs fetch.
HackRefspec == "+refs/*:refs/fetch/*"
PlainRefspec == "+refs/*:refs/*"
refspec == IF refs_hack THEN HackRefspec ELSE PlainRefspec

\* A preparation that leaves a refs symlink alone when no hack is asked for.
FfPrepareRefsKeepLink(ok) ==
    /\ step = "ff_refs"
    /\ IF refs_hack /\ ~ok
       THEN /\ exc' = OSError
            /\ step' = "ff_done"
            /\ UNCHANGED << refs, packed_refs, origin, master >>
       ELSE /\ refs' = IF refs_hack THEN "alt" ELSE refs
            /\ packed_refs' = IF refs_hack THEN FALSE ELSE packed_refs
            /\ master' = IF refs_hack /\ refs = "dir" THEN None ELSE master
            /\ step' = "ff_fetch"
            /\ UNCHANGED << exc, origin >>
    /\ UNCHANGED << handle, bare_mode, refs_hack, orig_head, rev, submodules, sha,
                    result, HEAD, FETCH_HEAD, worktree, untracked, remotevars, net >>

\* force_fetch: the refs directory is prepared. With refs_hack refs becomes
\* a symlink to refs.alt and packed-refs is deleted; without, a symlink left
\* by an earlier run is removed with its target and refs is made anew. The
\* file operations (os.makedirs, shutil.rmtree, os.unlink, os.symlink,
\* os.mkdir) raise OSError when they fail (ok is FALSE); they are not inside
\* the try statement of force_fetch.
FfPrepareRefs(ok) ==
    /\ step = "ff_refs"
    /\ IF (refs_hack \/ refs # "dir") /\ ~ok
       THEN /\ exc' = OSError
            /\ step' = "ff_done"
            /\ UNCHANGED << refs, packed_refs, origin, master >>
       ELSE /\ refs' = IF refs_hack THEN "alt" ELSE "dir"
            /\ packed_refs' = IF refs_hack THEN FALSE ELSE packed_refs
            /\ master' = IF (refs_hack /\ refs = "dir") \/ (~refs_hack /\ refs # "dir")
                         THEN None ELSE master
            /\ step' = "ff_fetch"
            /\ UNCHANGED << exc, origin >>
    /\ UNCHANGED << handle, bare_mode, refs_hack, orig_head, rev, submodules, sha,
                    result, HEAD, FETCH_HEAD, worktree, untracked, remotevars, net >>

\* A force_fetch whose two fetch commands do not depend on each other.
FfFetchAllThenHead ==
    /\ step = "ff_fetch"
    /\ IF net /\ origin
       THEN /\ master' = remote_master
            /\ FETCH_HEAD' = remote_master
            /\ UNCHANGED exc
       ELSE /\ exc' = GitRepositoryError
            /\ UNCHANGED << master, FETCH_HEAD >>
    /\ step' = "ff_fetch_head"
    /\ UNCHANGED << handle, bare_mode, refs_hack, orig_head, rev, submodules, sha,
                    result, HEAD, refs, packed_refs, origin, worktree, untracked,
                    remotevars, net >>

\* force_fetch: git fetch -q -u -p origin <refspec>, the first command of
\* the try statement.
FfFetchAll ==
    /\ step = "ff_fetch"
    /\ IF net /\ origin
       THEN /\ master' = remote_master
            /\ FETCH_HEAD' = remote_master
            /\ step' = "ff_fetch_head"
            /\ UNCHANGED exc
       ELSE /\ exc' = GitRepositoryError
            /\ step' = "ff_finally"
            /\ UNCHANGED << master, FETCH_HEAD >>
    /\ UNCHANGED << handle, bare_mode, refs_hack, orig_head, rev, submodules, sha,
                    result, HEAD, refs, packed_refs, origin, worktree, untracked,
                    remotevars, net >>

\* A HEAD fetch without the inner except clause.
FfFetchHeadRaise ==
    /\ step = "ff_fetch_head"
    /\ IF net /\ remote_head_ok
       THEN FETCH_HEAD' = remote_master /\ UNCHANGED exc
       ELSE exc' = GitRepositoryError /\ UNCHANGED FETCH_HEAD
    /\ step' = "ff_finally"
    /\ UNCHANGED << handle, bare_mode, refs_hack, orig_head, rev, submodules, sha,
                    result, HEAD, refs, packed_refs, origin, master, worktree, untracked,
                    remotevars, net >>

\* force_fetch: git fetch -q -u origin HEAD; its GitRepositoryError is
\* caught and the all-zero id written to FETCH_HEAD.
FfFetchHead ==
    /\ step = "ff_fetch_head"
    /\ FETCH_HEAD' = IF net /\ remote_head_ok THEN remote_master ELSE Zero
    /\ step' = "ff_finally"
    /\ UNCHANGED << handle, bare_mode, refs_hack, orig_head, exc, rev, submodules,
                    sha, result, HEAD, refs, packed_refs, origin, master, worktree,
                    untracked, remotevars, net >>

\* A finally clause that leaves the refs symlink where it points.
FfFinallyKeepLink(ok) ==
    /\ step = "ff_finally"
    /\ HEAD' = orig_head
    /\ IF refs_hack /\ ~ok THEN exc' = OSError ELSE UNCHANGED exc
    /\ step' = "ff_done"
    /\ UNCHANGED << handle, bare_mode, refs_hack, orig_head, rev, submodules, sha,
                    result, FETCH_HEAD, refs, packed_refs, origin, master, worktree,
                    untracked, remotevars, net >>

\* force_fetch: the finally clause. HEAD is set back; with refs_hack the
\* refs symlink is pointed at refs.alt/fetch, and an OSError of that takes
\* the place of the exception on its way out.
FfFinally(ok) ==
    /\ step = "ff_finally"
    /\ HEAD' = orig_head
    /\ IF refs_hack
       THEN IF ok THEN refs' = "fetch" /\ UNCHANGED exc
                  ELSE exc' = OSError /\ UNCHANGED refs
       ELSE UNCHANGED << refs, exc >>
    /\ step' = "ff_done"
    /\ UNCHANGED << handle, bare_mode, refs_hack, orig_head, rev, submodules, sha,
                    result, FETCH_HEAD, packed_refs, origin, master, worktree, untracked,
                    remotevars, net >>

\* force_fetch is over, and _init_git_repo with it: a GitRepositoryError is
\* raised as CachedRepoError, any other exception as it is.
OpenReturn ==
    /\ step = "ff_done"
    /\ IF exc = None
       THEN handle' = "open" /\ Ends(None, "handle", None)
       ELSE /\ Ends(IF exc = GitRepositoryError THEN CachedRepoError ELSE exc,
                    None, None)
            /\ UNCHANGED handle
    /\ refs_hack' = FALSE
    /\ orig_head' = None
    /\ exc' = None
    /\ UNCHANGED << bare_mode, rev, submodules, sha, gitdirvars, remotevars, net >>

\* ------------------------------------------------- update_working_copy
\* The commit-ish arguments: the remote's HEAD, its parent, a branch, and a
\* name that resolves to nothing.
Revisions == { "HEAD", "HEAD~1", "master", "foo/bar" }

\* The parent of a commit, None when there is none.
parent(c) == IF c = "c2" THEN "c1" ELSE None

\* The commit c2 adds a submodule to the tree.
has_submodules(c) == c = "c2"

\* What a ref whose value is v points at: the branch master, the branch
\* that does not exist, or the raw id v itself.
deref(v) ==
    IF v = MasterRef THEN local_master
    ELSE IF v = TmpHead THEN None
    ELSE v

\* A resolution that looks for every name under HEAD.
git_rev_parse_via_head(name) ==
    LET id == CASE name = "HEAD" -> deref(HEAD)
                [] name = "HEAD~1" -> IF deref(HEAD) \in Commits
                                      THEN parent(deref(HEAD)) ELSE None
                [] name = "master" -> deref(HEAD)
                [] OTHER -> None
    IN  IF id \in Commits THEN id ELSE None

\* rev_parse(name) followed by force_checkout: the commit id, or None when
\* the name does not resolve or resolves to an id that is no commit of the
\* repository.
git_rev_parse(name) ==
    LET id == CASE name = "HEAD" -> deref(HEAD)
                [] name = "HEAD~1" -> IF deref(HEAD) \in Commits
                                      THEN parent(deref(HEAD)) ELSE None
                [] name = "master" -> local_master
                [] OTHER -> None
    IN  IF id \in Commits THEN id ELSE None

\* update_working_copy is over and its arguments and locals are gone, or
\* it goes on and keeps them.
Forget == rev' = None /\ submodules' = FALSE /\ sha' = None
Keep == UNCHANGED << rev, submodules, sha >>

\* An update_working_copy that does not look at the bare attribute.
UpdateStartAnyMode(c, sm) ==
    /\ step = "idle"
    /\ handle # "none"
    /\ IF handle # "open"
       THEN Ends(CachedRepoError, None, None) /\ Forget
       ELSE /\ rev' = c /\ submodules' = sm /\ sha' = None
            /\ result' = NoResult /\ step' = "uwc_head"
    /\ UNCHANGED << handle, bare_mode, refs_hack, orig_head, exc,
                    gitdirvars, remotevars, net >>

\* update_working_copy: _check_instance and the test of the bare attribute.
UpdateStart(c, sm) ==
    /\ step = "idle"
    /\ handle # "none"
    /\ IF handle # "open" \/ bare_mode
       THEN Ends(CachedRepoError, None, None) /\ Forget
       ELSE /\ rev' = c /\ submodules' = sm /\ sha' = None
            /\ result' = NoResult /\ step' = "uwc_head"
    /\ UNCHANGED << handle, bare_mode, refs_hack, orig_head, exc,
                    gitdirvars, remotevars, net >>

\* An update_working_copy that leaves HEAD where the last checkout put it.
UpdateKeepHead ==
    /\ step = "uwc_head"
    /\ step' = "uwc_clean"
    /\ UNCHANGED << handle, bare_mode, refs_hack, orig_head, exc, rev, submodules,
                    sha, result, gitdirvars, remotevars, net >>

\* update_working_copy: set_ref('HEAD', get_ref('FETCH_HEAD')), outside
\* every try statement.
UpdateSetHead ==
    /\ step = "uwc_head"
    /\ IF FETCH_HEAD = None
       THEN Ends(GitRepositoryError, None, None) /\ Forget /\ UNCHANGED HEAD
       ELSE HEAD' = FETCH_HEAD /\ step' = "uwc_clean" /\ Keep /\ UNCHANGED result
    /\ UNCHANGED << handle, bare_mode, refs_hack, orig_head, exc, FETCH_HEAD, refs, packed_refs, origin, master, worktree, untracked,
                    remotevars, net >>

\* update_working_copy: force_clean removes what git does not track.
UpdateClean ==
    /\ step = "uwc_clean"
    /\ untracked' = FALSE
    /\ step' = "uwc_resolve"
    /\ UNCHANGED << handle, bare_mode, refs_hack, orig_head, exc, rev, submodules,
                    sha, result, HEAD, FETCH_HEAD, refs, packed_refs, origin, master,
                    worktree, remotevars, net >>

\* A failed resolution that removes the checked out files.
UpdateResolveWipe ==
    /\ step = "uwc_resolve"
    /\ LET id == git_rev_parse(rev)
       IN  IF id = None
           THEN /\ Ends(CachedRepoError, None, rev)
                /\ Forget
                /\ worktree' = None
                /\ UNCHANGED HEAD
           ELSE /\ sha' = id
                /\ UNCHANGED << rev, submodules >>
                /\ HEAD' = id
                /\ worktree' = id
                /\ step' = "uwc_reset"
                /\ UNCHANGED result
    /\ UNCHANGED << handle, bare_mode, refs_hack, orig_head, exc,
                    FETCH_HEAD, refs, packed_refs, origin, master, untracked,
                    remotevars, net >>

\* update_working_copy: rev_parse and force_checkout inside the try
\* statement, whose GitRepositoryError becomes CachedRepoError("Unknown ref
\* '<commitish>'").
UpdateResolve ==
    /\ step = "uwc_resolve"
    /\ LET id == git_rev_parse(rev)
       IN  IF id = None
           THEN /\ Ends(CachedRepoError, None, rev)
                /\ Forget
                /\ UNCHANGED << HEAD, worktree >>
           ELSE /\ sha' = id
                /\ UNCHANGED << rev, submodules >>
                /\ HEAD' = id
                /\ worktree' = id
                /\ step' = "uwc_reset"
                /\ UNCHANGED result
    /\ UNCHANGED << handle, bare_mode, refs_hack, orig_head, exc,
                    FETCH_HEAD, refs, packed_refs, origin, master, untracked,
                    remotevars, net >>

\* A reset that is followed by the update of the submodules in any case.
UpdateResetThenSubmodules ==
    /\ step = "uwc_reset"
    /\ HEAD' = sha
    /\ worktree' = sha
    /\ step' = "uwc_submodules" /\ Keep /\ UNCHANGED result
    /\ UNCHANGED << handle, bare_mode, refs_hack, orig_head, exc, FETCH_HEAD, refs, packed_refs, origin, master, untracked,
                    remotevars, net >>

\* update_working_copy: force_head(sha, hard=True), then the return of the
\* id when no submodules are asked for.
UpdateReset ==
    /\ step = "uwc_reset"
    /\ HEAD' = sha
    /\ worktree' = sha
    /\ IF submodules
       THEN step' = "uwc_submodules" /\ Keep /\ UNCHANGED result
       ELSE Ends(None, sha, None) /\ Forget
    /\ UNCHANGED << handle, bare_mode, refs_hack, orig_head, exc, FETCH_HEAD, refs, packed_refs, origin, master, untracked,
                    remotevars, net >>

\* update_working_copy: update_submodules(init, recursive, fetch), outside
\* every try statement: the submodule of the tree is fetched from its
\* remote, and git's failure is a GitRepositoryError.
UpdateSubmodules ==
    /\ step = "uwc_submodules"
    /\ IF has_submodules(worktree) /\ ~net
       THEN Ends(GitRepositoryError, None, None)
       ELSE Ends(None, sha, None)
    /\ Forget
    /\ UNCHANGED << handle, bare_mode, refs_hack, orig_head, exc,
                    gitdirvars, remotevars, net >>

\* CachedRepo.close, in the git view.
CloseHandle ==
    /\ step = "idle"
    /\ handle = "open"
    /\ handle' = "closed"
    /\ result' = NoResult
    /\ UNCHANGED << step, bare_mode, refs_hack, orig_head, exc, rev, submodules,
                    sha, gitdirvars, remotevars, net >>

\* --------------------------------------------- the environment, git view
\* The commit c2 is pushed to the remote's master.
Push ==
    /\ remote_master = "c1"
    /\ remote_master' = "c2"
    /\ UNCHANGED << callvars, gitdirvars, remote_head_ok, net >>

\* The remote's HEAD is pointed at a branch that does not exist, or back
\* at master.
SetRemoteHead(b) ==
    /\ remote_head_ok # b
    /\ remote_head_ok' = b
    /\ UNCHANGED << callvars, gitdirvars, remote_master, net >>

\* Somebody leaves files in the working copy of the slot.
Litter ==
    /\ HEAD # None /\ ~bare_mode
    /\ ~untracked
    /\ untracked' = TRUE
    /\ UNCHANGED << callvars, HEAD, FETCH_HEAD, refs, packed_refs, origin, master,
                    worktree, remotevars, net >>

cachevars == << hvars, fsvars, writable >>

GitNext ==
    \/ \E hack \in BOOLEAN : OpenRepo(hack)
            /\ UNCHANGED << cachevars, svcvars, utilvars >>
    \/ CloneMirror /\ UNCHANGED << cachevars, svcvars, utilvars >>
    \/ \E ok \in BOOLEAN : CloneCreate(ok)
            /\ UNCHANGED << cachevars, svcvars, utilvars >>
    \/ \E outcome \in CloneOutcomes : CloneAddRemote(outcome)
            /\ UNCHANGED << cachevars, svcvars, utilvars >>
    \/ FfSaveHead /\ UNCHANGED << cachevars, svcvars, utilvars >>
    \/ \E ok \in BOOLEAN : FfPrepareRefs(ok)
            /\ UNCHANGED << cachevars, svcvars, utilvars >>
    \/ FfFetchAll /\ UNCHANGED << cachevars, svcvars, utilvars >>
    \/ FfFetchHead /\ UNCHANGED << cachevars, svcvars, utilvars >>
    \/ \E ok \in BOOLEAN : FfFinally(ok)
            /\ UNCHANGED << cachevars, svcvars, utilvars >>
    \/ OpenReturn /\ UNCHANGED << cachevars, svcvars, utilvars >>
    \/ \E c \in Revisions, sm \in BOOLEAN : UpdateStart(c, sm)
            /\ UNCHANGED << cachevars, svcvars, utilvars >>
    \/ UpdateSetHead /\ UNCHANGED << cachevars, svcvars, utilvars >>
    \/ UpdateClean /\ UNCHANGED << cachevars, svcvars, utilvars >>
    \/ UpdateResolve /\ UNCHANGED << cachevars, svcvars, utilvars >>
    \/ UpdateReset /\ UNCHANGED << cachevars, svcvars, utilvars >>
    \/ UpdateSubmodules /\ UNCHANGED << cachevars, svcvars, utilvars >>
    \/ CloseHandle /\ UNCHANGED << cachevars, svcvars, utilvars >>
    \/ Push /\ UNCHANGED << cachevars, svcvars, utilvars >>
    \/ \E b \in BOOLEAN : SetRemoteHead(b)
            /\ UNCHANGED << cachevars, svcvars, utilvars >>
    \/ Litter /\ UNCHANGED << cachevars, svcvars, utilvars >>
    \/ \E b \in BOOLEAN : SetNet(b)
            /\ UNCHANGED << gitvars, svcvars, utilvars >>

GitSpec == GitSpecInit /\ [][GitNext]_<< vars, gitvars >>

\* ------------------------------------------------- the service's main
\* Exit codes
EXIT_OK == 0
EXIT_ERR_SERVICE == 1
EXIT_ERR_RPM_EXPORT == 2
EXIT_ERR_DEB_EXPORT == 3

ExportError == "ExportError"
GbpServiceError == "GbpServiceError"
GbpChildBTError == "GbpChildBTError"

\* The values of --rpm and --deb.
ExportModes == { "auto", "yes", "no" }
\* What a call of fork_call(uid, gid, gbp)(args) comes to: the exporter
\* returns 0, returns non-zero, raises, or the child could not take the
\* uid and gid.
ForkOutcomes == { "ok", "fail", "raise", "demote" }

\* The variables no step of main changes: the cache view.
mainframe == << cachevars, net >>

\* main returns the code c.
Returns(c) ==
    /\ ret' = [code |-> c, exc |-> None]
    /\ mstep' = "done"

\* An exception no except clause of main names leaves main.
Escapes(e) ==
    /\ ret' = [code |-> None, exc |-> e]
    /\ mstep' = "done"

\* main up to the call of CachedRepo(config['repo-cache-dir'], args.url,
\* refs_hack=refs_hack), whose steps are those of the git view. The options
\* of the run are drawn where main first reads them.
MainOpen(hack) ==
    /\ mstep = "start"
    /\ OpenRepo(hack)
    /\ mstep' = "opening"
    /\ UNCHANGED << args_revision, uid, tmp_out, outdir, ran, pending, ret >>

\* main: CachedRepo(...) is over. A CachedRepoError makes main return 1,
\* any other exception leaves main; when the handle is built,
\* update_working_copy(args.revision) is called.
MainOpened(revision) ==
    /\ mstep = "opening"
    /\ step = "idle"
    /\ IF result.exc = None
       THEN /\ UpdateStart(revision, TRUE)
            /\ args_revision' = revision
            /\ mstep' = "updating"
            /\ UNCHANGED ret
       ELSE /\ IF result.exc = CachedRepoError
               THEN Returns(1)
               ELSE Escapes(result.exc)
            /\ UNCHANGED << args_revision, gitvars, net >>
    /\ UNCHANGED << uid, tmp_out, outdir, ran, pending >>

\* A main that exports whatever update_working_copy came to.
MainUpdatedAnyway ==
    /\ mstep = "updating"
    /\ step = "idle"
    /\ args_revision' = result.val
    /\ mstep' = "export_dirs"
    /\ UNCHANGED << uid, tmp_out, outdir, ran, pending, ret, gitvars, net >>

\* A main that closes the handle once update_working_copy has returned.
MainUpdatedClosing ==
    /\ mstep = "updating"
    /\ step = "idle"
    /\ IF result.exc = None
       THEN /\ args_revision' = result.val
            /\ mstep' = "export_dirs"
            /\ handle' = "closed"
            /\ UNCHANGED ret
       ELSE /\ IF result.exc = CachedRepoError
               THEN Returns(1)
               ELSE Escapes(result.exc)
            /\ UNCHANGED << args_revision, handle >>
    /\ UNCHANGED << uid, tmp_out, outdir, ran, pending, step, bare_mode, refs_hack,
                    orig_head, exc, rev, submodules, sha, result, gitdirvars,
                    remotevars, net >>

\* main: update_working_copy is over. A CachedRepoError makes main return
\* 1, any other exception leaves main; the id returned becomes
\* args.revision and gbp_export is called.
MainUpdated ==
    /\ mstep = "updating"
    /\ step = "idle"
    /\ IF result.exc = None
       THEN /\ args_revision' = result.val
            /\ mstep' = "export_dirs"
            /\ UNCHANGED ret
       ELSE /\ IF result.exc = CachedRepoError
               THEN Returns(1)
               ELSE Escapes(result.exc)
            /\ UNCHANGED args_revision
    /\ UNCHANGED << uid, tmp_out, outdir, ran, pending, gitvars, net >>

\* gbp_export: os.makedirs(args.outdir) and tempfile.mkdtemp(dir=args.outdir);
\* an OSError is raised as ExportError(EXIT_ERR_SERVICE), which main returns.
ExportDirs(ok) ==
    /\ mstep = "export_dirs"
    /\ IF ok
       THEN /\ outdir' = [outdir EXCEPT !.exists = TRUE]
            /\ tmp_out' = [exists |-> TRUE, files |-> {}]
            /\ mstep' = "export_uid"
            /\ UNCHANGED ret
       ELSE /\ Returns(EXIT_ERR_SERVICE)
            /\ UNCHANGED << outdir, tmp_out >>
    /\ UNCHANGED << args_revision, uid, ran, pending, gitvars, net >>

\* The values of gbp-user / gbp-group: not set, the name of a user there
\* is, a name there is none for.
Users == { "unset", "known", "unknown" }
\* The uid of the user there is.
KnownUid == 1000

\* sanitize_uid_gid in gbp_export: a GbpServiceError is raised as
\* ExportError(EXIT_ERR_SERVICE); the temporary directory is not removed.
ExportUid(user) ==
    /\ mstep = "export_uid"
    /\ IF user = "unknown"
       THEN Returns(EXIT_ERR_SERVICE) /\ UNCHANGED uid
       ELSE /\ uid' = IF user = "known" THEN KnownUid ELSE -1
            /\ mstep' = "export_chown"
            /\ UNCHANGED ret
    /\ UNCHANGED << args_revision, tmp_out, outdir, ran, pending, gitvars, net >>

\* gbp_export: os.chown(tmp_out, uid, gid), outside every try statement:
\* its OSError leaves gbp_export and main.
ExportChown(ok) ==
    /\ mstep = "export_chown"
    /\ IF uid = -1 \/ ok
       THEN mstep' = "export_rpm" /\ UNCHANGED ret
       ELSE Escapes(OSError)
    /\ UNCHANGED << args_revision, uid, tmp_out, outdir, ran, pending, gitvars, net >>

\* An exporter is run by fork_call: it leaves its files in the temporary
\* directory; a non-zero return is raised as ExportError with the code of
\* the exporter, GbpChildBTError and GbpServiceError as
\* ExportError(EXIT_ERR_SERVICE). The exception goes through the finally
\* clause.
RunExporter(name, outcome, code, next) ==
    /\ ran' = ran \cup { name }
    /\ tmp_out' = [tmp_out EXCEPT !.files = tmp_out.files \cup { name }]
    /\ IF outcome = "ok"
       THEN mstep' = next /\ UNCHANGED pending
       ELSE /\ pending' = [exc |-> ExportError,
                           code |-> IF outcome = "fail" THEN code
                                    ELSE EXIT_ERR_SERVICE]
            /\ mstep' = "export_finally"

\* gbp_export: the RPM export, when --rpm is yes, or auto and the tree has
\* spec files.
ExportRpm(rpm, specs_found, outcome) ==
    /\ mstep = "export_rpm"
    /\ outcome = "demote" => uid > 0
    /\ IF rpm = "yes" \/ (rpm = "auto" /\ specs_found)
       THEN RunExporter("rpm", outcome, EXIT_ERR_RPM_EXPORT, "export_deb")
       ELSE mstep' = "export_deb" /\ UNCHANGED << ran, tmp_out, pending >>
    /\ UNCHANGED << args_revision, uid, outdir, ret, gitvars, net >>

\* gbp_export: the Debian export, when --deb is yes, or auto and the tree
\* has a directory debian.
ExportDeb(deb, isdir_debian, outcome) ==
    /\ mstep = "export_deb"
    /\ outcome = "demote" => uid > 0
    /\ IF deb = "yes" \/ (deb = "auto" /\ isdir_debian)
       THEN RunExporter("deb", outcome, EXIT_ERR_DEB_EXPORT, "export_move")
       ELSE mstep' = "export_move" /\ UNCHANGED << ran, tmp_out, pending >>
    /\ UNCHANGED << args_revision, uid, outdir, ret, gitvars, net >>

\* move_dir_content(tmp_out, args.outdir): shutil.move and os.lchown file
\* by file, in no try statement that names their errors: when one fails the
\* files moved before it are in the output directory and the OSError goes
\* through the finally clause and out of main.
ExportMove(moved) ==
    /\ mstep = "export_move"
    /\ outdir' = [outdir EXCEPT !.files =
                    outdir.files \cup (IF moved = {} THEN {} ELSE { "pkg" })]
    /\ tmp_out' = [tmp_out EXCEPT !.files = tmp_out.files \ moved]
    /\ pending' = IF moved = tmp_out.files THEN NoPending
                  ELSE [exc |-> OSError, code |-> None]
    /\ mstep' = "export_finally"
    /\ ran' = ran \cup (IF moved = {} THEN {} ELSE { "placed" })
    /\ UNCHANGED << args_revision, uid, ret, gitvars, net >>

\* gbp_export: the finally clause removes the temporary directory; then
\* main returns the code of the ExportError, or the OSError leaves main, or
\* gbp_export has returned: main goes on to write_treeish_meta when
\* --git-meta is given and returns EXIT_OK when it is not.
ExportFinally(git_meta) ==
    /\ mstep = "export_finally"
    /\ tmp_out' = NoDirectory
    /\ pending' = NoPending
    /\ IF pending.exc = ExportError THEN Returns(pending.code)
       ELSE IF pending.exc # None THEN Escapes(pending.exc)
       ELSE IF git_meta THEN mstep' = "meta" /\ UNCHANGED ret
       ELSE Returns(EXIT_OK)
    /\ UNCHANGED << args_revision, uid, outdir, ran, gitvars, net >>

\* main: write_treeish_meta(repo.repo, args.revision, args.outdir,
\* args.git_meta). Its GbpServiceError, for a file that is there already
\* or cannot be written, makes main return EXIT_ERR_SERVICE.
MainWriteMeta(ok) ==
    /\ mstep = "meta"
    /\ ran' = ran \cup { "meta" }
    /\ IF "meta" \in outdir.files \/ ~ok
       THEN Returns(EXIT_ERR_SERVICE) /\ UNCHANGED outdir
       ELSE /\ outdir' = [outdir EXCEPT !.files = outdir.files \cup { "meta" }]
            /\ Returns(EXIT_OK)
    /\ UNCHANGED << args_revision, uid, tmp_out, pending, gitvars, net >>

\* The process of the service ends, and the CachedRepo object with it; the
\* next run of the service starts on what this one left on disk.
MainExit ==
    /\ mstep = "done"
    /\ step = "idle"
    /\ mstep' = "start"
    /\ args_revision' = None
    /\ uid' = -1
    /\ tmp_out' = NoDirectory
    /\ ran' = {}
    /\ pending' = NoPending
    /\ ret' = NoRet
    /\ handle' = "none"
    /\ result' = NoResult
    /\ UNCHANGED << outdir, step, bare_mode, refs_hack, orig_head, exc, rev,
                    submodules, sha, gitdirvars, remotevars, net >>

\* The caller of the service empties the output directory.
ClearOutdir ==
    /\ mstep = "start"
    /\ outdir.files # {}
    /\ outdir' = [outdir EXCEPT !.files = {}]
    /\ UNCHANGED << mstep, args_revision, uid, tmp_out, ran, pending, ret,
                    gitvars, net >>

MainNext ==
    \/ \E hack \in BOOLEAN : MainOpen(hack)
            /\ UNCHANGED << cachevars, utilvars >>
    \/ \E ok \in BOOLEAN : CloneCreate(ok)
            /\ UNCHANGED << cachevars, svcvars, utilvars >>
    \/ \E outcome \in CloneOutcomes : CloneAddRemote(outcome)
            /\ UNCHANGED << cachevars, svcvars, utilvars >>
    \/ FfSaveHead /\ UNCHANGED << cachevars, svcvars, utilvars >>
    \/ \E ok \in BOOLEAN : FfPrepareRefs(ok)
            /\ UNCHANGED << cachevars, svcvars, utilvars >>
    \/ FfFetchAll /\ UNCHANGED << cachevars, svcvars, utilvars >>
    \/ FfFetchHead /\ UNCHANGED << cachevars, svcvars, utilvars >>
    \/ \E ok \in BOOLEAN : FfFinally(ok)
            /\ UNCHANGED << cachevars, svcvars, utilvars >>
    \/ OpenReturn /\ UNCHANGED << cachevars, svcvars, utilvars >>
    \/ \E revision \in Revisions : MainOpened(revision)
            /\ UNCHANGED << cachevars, utilvars >>
    \/ UpdateSetHead /\ UNCHANGED << cachevars, svcvars, utilvars >>
    \/ UpdateClean /\ UNCHANGED << cachevars, svcvars, utilvars >>
    \/ UpdateResolve /\ UNCHANGED << cachevars, svcvars, utilvars >>
    \/ UpdateReset /\ UNCHANGED << cachevars, svcvars, utilvars >>
    \/ UpdateSubmodules /\ UNCHANGED << cachevars, svcvars, utilvars >>
    \/ MainUpdated /\ UNCHANGED << cachevars, utilvars >>
    \/ \E ok \in BOOLEAN : ExportDirs(ok)
            /\ UNCHANGED << cachevars, utilvars >>
    \/ \E user \in Users : ExportUid(user)
            /\ UNCHANGED << cachevars, utilvars >>
    \/ \E ok \in BOOLEAN : ExportChown(ok)
            /\ UNCHANGED << cachevars, utilvars >>
    \/ \E rpm \in ExportModes, specs_found \in BOOLEAN, outcome \in ForkOutcomes :
            ExportRpm(rpm, specs_found, outcome)
            /\ UNCHANGED << cachevars, utilvars >>
    \/ \E deb \in ExportModes, isdir_debian \in BOOLEAN, outcome \in ForkOutcomes :
            ExportDeb(deb, isdir_debian, outcome)
            /\ UNCHANGED << cachevars, utilvars >>
    \/ \E moved \in SUBSET tmp_out.files : ExportMove(moved)
            /\ UNCHANGED << cachevars, utilvars >>
    \/ \E git_meta \in BOOLEAN : ExportFinally(git_meta)
            /\ UNCHANGED << cachevars, utilvars >>
    \/ \E ok \in BOOLEAN : MainWriteMeta(ok)
            /\ UNCHANGED << cachevars, utilvars >>
    \/ MainExit /\ UNCHANGED << cachevars, utilvars >>
    \/ ClearOutdir /\ UNCHANGED << cachevars, utilvars >>
    \/ Push /\ UNCHANGED << cachevars, svcvars, utilvars >>
    \/ \E b \in BOOLEAN : SetRemoteHead(b)
            /\ UNCHANGED << cachevars, svcvars, utilvars >>
    \/ Litter /\ UNCHANGED << cachevars, svcvars, utilvars >>
    \/ \E b \in BOOLEAN : SetNet(b)
            /\ UNCHANGED << gitvars, svcvars, utilvars >>

allvars == << vars, gitvars, svcvars, utilvars >>

MainSpec == MainInit /\ [][MainNext]_allvars

\* ------------------------------------------- a second service process
\* Another process runs the service for the same URL while this one does.
\* The other process is followed through its handle, from the lock on.
RivalInit ==
    /\ CacheInit
    /\ proc = [h \in Handles |-> IF h = 1 THEN "p1" ELSE "p2"]
    /\ GitInit
    /\ ~bare_mode
    /\ SvcInit
    /\ UtilInit

\* The handle of the other process.
Rival == CHOOSE h \in Handles : proc[h] # "p1"

\* The CachedRepo object of main holds the lock: from _acquire_lock in the
\* constructor until the object is closed or destroyed. main never calls
\* close, and a constructor that raised leaves no object behind.
ServiceHoldsLock == mstep = "opening" \/ handle = "open"

\* The other process calls CachedRepo(...) on a slot an earlier run has
\* filled: the slot path is computed and the lock file opened.
RivalConstruct(url) ==
    /\ pc[Rival] = "new"
    /\ HEAD # None /\ origin
    /\ pc' = [pc EXCEPT ![Rival] = "flock"]
    /\ repodir' = [repodir EXCEPT ![Rival] = repodir_of(url)]
    /\ lock' = [lock EXCEPT ![Rival] = "open"]
    /\ UNCHANGED << hbare, repo, last, proc, fsvars, envvars, gitvars >>

\* fcntl.flock(self._lock, fcntl.LOCK_EX) of the other process returns once
\* no other open file holds the lock.
RivalAcquire ==
    /\ pc[Rival] = "flock"
    /\ ~ServiceHoldsLock
    /\ pc' = [pc EXCEPT ![Rival] = "fetch"]
    /\ lock' = [lock EXCEPT ![Rival] = "held"]
    /\ UNCHANGED << hbare, repodir, repo, last, proc, fsvars, envvars, gitvars >>

\* The other process' force_fetch on the slot; its failure ends the
\* constructor with CachedRepoError.
RivalFetch ==
    /\ pc[Rival] = "fetch"
    /\ IF net
       THEN /\ master' = remote_master
            /\ FETCH_HEAD' = remote_master
            /\ pc' = [pc EXCEPT ![Rival] = "ready"]
            /\ repo' = [repo EXCEPT ![Rival] = RepoObj(FALSE)]
            /\ UNCHANGED last
       ELSE /\ pc' = [pc EXCEPT ![Rival] = "failed"]
            /\ last' = [last EXCEPT ![Rival] = CachedRepoError]
            /\ UNCHANGED << master, FETCH_HEAD, repo >>
    /\ UNCHANGED << hbare, repodir, lock, proc, fsvars, envvars, callvars, HEAD,
                    refs, packed_refs, origin, worktree, untracked, remotevars >>

\* The other process' update_working_copy: HEAD is set to FETCH_HEAD, the
\* working copy is cleaned and reset to the commit.
RivalUpdate(c) ==
    /\ pc[Rival] = "ready"
    /\ last[Rival] = None
    /\ c \in { FETCH_HEAD, parent(FETCH_HEAD) } \cap Commits
    /\ HEAD' = c
    /\ worktree' = c
    /\ untracked' = FALSE
    /\ last' = [last EXCEPT ![Rival] = "value"]
    /\ UNCHANGED << pc, hbare, repodir, lock, repo, proc, fsvars, envvars, callvars,
                    FETCH_HEAD, refs, packed_refs, origin, master, remotevars >>

\* The other process ends, and its lock with it.
RivalExit ==
    /\ pc[Rival] \in { "ready", "failed" }
    /\ pc' = [pc EXCEPT ![Rival] = "new"]
    /\ lock' = [lock EXCEPT ![Rival] = None]
    /\ repodir' = [repodir EXCEPT ![Rival] = NoDir]
    /\ repo' = [repo EXCEPT ![Rival] = NoRepo]
    /\ last' = [last EXCEPT ![Rival] = None]
    /\ UNCHANGED << hbare, proc, fsvars, envvars, gitvars >>

\* A step of main; its constructor waits in flock while the other process
\* holds the lock.
ServiceStep ==
    /\ MainNext
    /\ (mstep = "start" /\ mstep' # "start") => lock[Rival] # "held"

RivalNext ==
    \/ ServiceStep
    \/ \E url \in Urls : RivalConstruct(url) /\ UNCHANGED << svcvars, utilvars >>
    \/ RivalAcquire /\ UNCHANGED << svcvars, utilvars >>
    \/ RivalFetch /\ UNCHANGED << svcvars, utilvars >>
    \/ \E c \in Commits : RivalUpdate(c) /\ UNCHANGED << svcvars, utilvars >>
    \/ RivalExit /\ UNCHANGED << svcvars, utilvars >>

RivalSpec == RivalInit /\ [][RivalNext]_allvars

\* ------------------------------------------------- write_treeish_meta
\* The helpers start with nothing on disk and one process.
HelperInit == Init /\ proc = [h \in Handles |-> "p1"]

\* The repository of the metadata: its HEAD is the commit C with the tree
\* R; tag and tag2 are annotated tags of C, light_tag is a lightweight tag
\* of C. A revision is a name, or a name followed by ^0.
TagOrder == << "light_tag", "tag", "tag2" >>
Treeishes == { << "tag" >>, << "light_tag" >>, << "HEAD" >>, << "tree" >>,
               << "unknown" >> }

\* repo.get_obj_type: git cat-file -t; None stands for its
\* GitRepositoryError.
get_obj_type(rev_) ==
    CASE rev_[1] \in { "tag", "tag2" } -> IF Len(rev_) = 1 THEN "tag" ELSE "commit"
      [] rev_[1] \in { "light_tag", "HEAD" } -> "commit"
      [] rev_[1] = "tree" -> IF Len(rev_) = 1 THEN "tree" ELSE None
      [] OTHER -> None

\* repo.rev_parse: the id of the object the revision names.
obj_id(rev_) ==
    CASE get_obj_type(rev_) = "tag" -> << "id", rev_[1] >>
      [] get_obj_type(rev_) = "commit" -> << "id", "C" >>
      [] get_obj_type(rev_) = "tree" -> << "id", "R" >>
      [] OTHER -> << >>

\* MirrorGitRepository.list_tags: git tag --points-at, the tags that are
\* the object or that tag it, in the order of their names.
list_tags(obj) ==
    SelectSeq(TagOrder, LAMBDA t :
        \/ obj_id(<< t >>) = obj_id(obj)
        \/ get_obj_type(<< t >>) = "tag" /\ obj_id(<< t, "^0" >>) = obj_id(obj))

\* _tag_list_in_json: the annotated tags among them whose id is not the id
\* of the treeish; each stands for its get_tag_info.
tag_list_in_json(treeish) ==
    SelectSeq(list_tags(treeish), LAMBDA t :
        get_obj_type(<< t >>) = "tag" /\ obj_id(<< t >>) # obj_id(treeish))

\* The dictionary write_treeish_meta builds, key -> value; the key of a
\* dictionary inside a dictionary is written with a dot.
meta_dict(treeish) ==
    LET obj_type == get_obj_type(treeish)
    IN  ("treeish" :> treeish)
        @@ (IF obj_type = "tag"
            THEN ("tag" :> << treeish[1] >>)
                 @@ ("tag.tags" :> tag_list_in_json(treeish))
            ELSE Empty)
        @@ (IF obj_type \in { "tag", "commit" }
            THEN ("commit" :> << "C" >>)
                 @@ ("commit.tags" :> tag_list_in_json(Append(treeish, "^0")))
            ELSE Empty)

\* The outdir arguments: a directory there is, and one there is not.
Outdirs == { ".", "non-existent-dir" }
\* The filename arguments, as their path components.
Filenames == { << "meta" >>, << "sub", "meta" >>, << "other" >> }
\* os.path.basename
basename(filename) == filename[Len(filename)]

\* A write_treeish_meta that does not look for the file.
WtmStartNoCheck(treeish, dir, filename) ==
    /\ wtm.pos \in { "idle", "done" }
    /\ wtm' = [pos |-> IF get_obj_type(treeish) = None THEN "done" ELSE "open",
               treeish |-> treeish, outdir |-> dir,
               filepath |-> basename(filename),
               meta |-> IF get_obj_type(treeish) = None THEN Empty
                        ELSE meta_dict(treeish),
               exc |-> IF get_obj_type(treeish) = None
                       THEN GitRepositoryError ELSE None]
    /\ UNCHANGED outfiles

\* write_treeish_meta up to os.path.exists(filepath): the look-ups in the
\* repository, whose GitRepositoryError is not caught, then the
\* GbpServiceError for a file that is there.
WtmStart(treeish, dir, filename) ==
    /\ wtm.pos \in { "idle", "done" }
    /\ LET found == get_obj_type(treeish) # None
           exists == dir = "." /\ basename(filename) \in DOMAIN outfiles
       IN  wtm' = [pos |-> IF found /\ ~exists THEN "open" ELSE "done",
                   treeish |-> treeish, outdir |-> dir,
                   filepath |-> basename(filename),
                   meta |-> IF found THEN meta_dict(treeish) ELSE Empty,
                   exc |-> IF ~found THEN GitRepositoryError
                           ELSE IF exists THEN GbpServiceError ELSE None]
    /\ UNCHANGED outfiles

\* write_treeish_meta: open(filepath, 'w') and json.dump; the IOError, of a
\* directory that is not there for one, is raised as GbpServiceError.
WtmWrite(ok) ==
    /\ wtm.pos = "open"
    /\ IF wtm.outdir = "." /\ ok
       THEN /\ outfiles' = (wtm.filepath :> wtm.meta) @@ outfiles
            /\ wtm' = [wtm EXCEPT !.pos = "done"]
       ELSE /\ wtm' = [wtm EXCEPT !.pos = "done", !.exc = GbpServiceError]
            /\ UNCHANGED outfiles

\* What a file holds that write_treeish_meta did not write.
Foreign == ("foreign" :> << "x" >>)

\* Another process creates a file in the output directory.
OtherWriter(name) ==
    /\ name \notin DOMAIN outfiles
    /\ outfiles' = (name :> Foreign) @@ outfiles
    /\ UNCHANGED wtm

\* A file of the output directory is removed.
RemoveFile(name) ==
    /\ name \in DOMAIN outfiles
    /\ outfiles' = [n \in DOMAIN outfiles \ { name } |-> outfiles[n]]
    /\ UNCHANGED wtm

\* The variables write_treeish_meta does not touch.
metaframe == << vars, gitvars, svcvars, fork, resolve, gitrefs, refcall, taginfo >>

MetaNext ==
    \/ \E treeish \in Treeishes, dir \in Outdirs, filename \in Filenames :
            WtmStart(treeish, dir, filename) /\ UNCHANGED metaframe
    \/ \E ok \in BOOLEAN : WtmWrite(ok) /\ UNCHANGED metaframe
    \/ \E name \in { "meta", "other" } : OtherWriter(name) /\ UNCHANGED metaframe
    \/ \E name \in { "meta", "other" } : RemoveFile(name) /\ UNCHANGED metaframe

MetaSpec == HelperInit /\ [][MetaNext]_allvars

\* ----------------------------------------------------------- fork_call
\* The user and group arguments: not set, the name of a user or group there
\* is, a name there is none for, and a number.
ForkUsers == { "unset", "known", "unknown", "99999" }
\* The id a number as user or group argument stands for.
NumericId == 99999

\* What func does when it is called: it returns a value or raises an
\* exception of the class named. SystemExit is no subclass of Exception.
Funcs == { [returns |-> "0", raises |-> None],
           [returns |-> "1", raises |-> None],
           [returns |-> None, raises |-> "TypeError"],
           [returns |-> None, raises |-> "_DummyException"],
           [returns |-> None, raises |-> "SystemExit"] }
\* The exception classes derived from Exception.
ExceptionClasses == { "TypeError", "_DummyException" }

\* sanitize_uid_gid for one name: the id, -1 when the name is not set; the
\* KeyError of a name there is no entry for is the value None.
sanitize(name) ==
    CASE name = "unset" -> << -1 >>
      [] name = "known" -> << KnownUid >>
      [] name = "99999" -> << NumericId >>
      [] OTHER -> << >>

\* What the child puts on the queue.
QueuedValue(v) == [kind |-> "value", val |-> v, typ |-> None]
QueuedError(e, typ) == [kind |-> e, val |-> None, typ |-> typ]

\* _fork_call up to child.start(): sanitize_uid_gid in the calling process,
\* whose GbpServiceError ends the call before any child is made. The caller
\* is root, or the user and group whose names are known; the child starts
\* with the ids of the caller.
ForkCall(user, group, func, privileged) ==
    /\ fork.pos \in { "idle", "done" }
    /\ IF sanitize(user) = << >> \/ sanitize(group) = << >>
       THEN fork' = [ForkIdle EXCEPT !.pos = "done", !.user = user,
                                     !.group = group, !.func = func,
                                     !.exc = GbpServiceError]
       ELSE fork' = [ForkIdle EXCEPT !.pos = "child", !.user = user,
                                     !.group = group, !.func = func,
                                     !.uid = sanitize(user)[1],
                                     !.gid = sanitize(group)[1],
                                     !.privileged = privileged,
                                     !.ruid = IF privileged THEN 0 ELSE KnownUid,
                                     !.rgid = IF privileged THEN 0 ELSE KnownUid]

\* pwd.getpwuid(uid): the KeyError of an id without an entry is the value
\* FALSE.
getpwuid(id) == id # NumericId

\* The kernel lets a process set its ids to an id it has, and to any id
\* while it has the capability, which a process that was root holds until
\* none of its user ids is 0.
may_set(capable, id, current) == capable \/ id = current

\* The steps of the first try statement of _demoted_child_call, in the
\* order of the code: os.setresuid, pwd.getpwuid, os.setresgid. What they
\* come to: "ok", or the name of the exception raised.
Demote ==
    LET set_uid == fork.uid > 0
        set_gid == fork.gid > 0
        uid_ok == may_set(fork.privileged, fork.uid, fork.ruid)
        capable == fork.privileged /\ ~set_uid
        gid_ok == may_set(capable, fork.gid, fork.rgid)
    IN  IF set_uid /\ ~uid_ok THEN "OSError"
        ELSE IF set_uid /\ ~getpwuid(fork.uid) THEN "KeyError"
        ELSE IF set_gid /\ ~gid_ok THEN "OSError"
        ELSE "ok"

\* _demoted_child_call up to the call of func: an OSError is put on the
\* queue as GbpServiceError and the child exits with _RET_FORK_ERR; any
\* other exception ends the child with nothing on the queue.
ChildDemote ==
    /\ fork.pos = "child"
    /\ IF Demote = "OSError"
       THEN fork' = [fork EXCEPT !.pos = "exited",
                         !.queue = << QueuedError(GbpServiceError, None) >>,
                         !.exitcode = 1]
       ELSE IF Demote = "KeyError"
       THEN fork' = [fork EXCEPT !.pos = "exited", !.ruid = fork.uid,
                                 !.exitcode = 1]
       ELSE fork' = [fork EXCEPT !.pos = "func",
                         !.ruid = IF fork.uid > 0 THEN fork.uid ELSE fork.ruid,
                         !.rgid = IF fork.gid > 0 THEN fork.gid ELSE fork.rgid]

\* _demoted_child_call: func() in the child. Its return value is put on the
\* queue and the child exits with _RET_FORK_OK; an exception that `except
\* Exception` catches is put on the queue as GbpChildBTError, whose typ is
\* its class, and the child exits with _RET_FORK_ERR; any other exception
\* ends the child with nothing on the queue.
ChildRun ==
    /\ fork.pos = "func"
    /\ fork' = [fork EXCEPT
            !.pos = "exited",
            !.ran_in = "child",
            !.queue = IF fork.func.raises = None
                      THEN << QueuedValue(fork.func.returns) >>
                      ELSE IF fork.func.raises \in ExceptionClasses
                      THEN << QueuedError(GbpChildBTError, fork.func.raises) >>
                      ELSE << >>,
            !.exitcode = IF fork.func.raises = None THEN 0 ELSE 1]

\* _fork_call after child.join(): data_q.get(), which waits for as long as
\* the queue is empty, then the return of the data when the child exited
\* with _RET_FORK_OK and its raise when not.
ParentGet ==
    /\ fork.pos = "exited"
    /\ fork.queue # << >>
    /\ LET ret_data == Head(fork.queue)
       IN  fork' = [fork EXCEPT
                !.pos = "done",
                !.queue = << >>,
                !.val = IF fork.exitcode = 0 THEN ret_data.val ELSE None,
                !.exc = IF fork.exitcode = 0 THEN None ELSE ret_data.kind,
                !.typ = IF fork.exitcode = 0 THEN None ELSE ret_data.typ]

\* The variables fork_call does not touch.
forkframe == << vars, gitvars, svcvars, wtm, outfiles, resolve, gitrefs, refcall,
                taginfo >>

ForkNext ==
    \/ \E user \in ForkUsers, group \in ForkUsers, func \in Funcs,
          privileged \in BOOLEAN :
            ForkCall(user, group, func, privileged) /\ UNCHANGED forkframe
    \/ ChildDemote /\ UNCHANGED forkframe
    \/ ChildRun /\ UNCHANGED forkframe
    \/ ParentGet /\ UNCHANGED forkframe

ForkSpec == HelperInit /\ [][ForkNext]_allvars

\* -------------------------------------------------------- the slot path
\* The longest URL that is resolved.
MaxUrlLen == 3
\* The characters of the URLs: a letter and the two separators.
UrlChars == { "a", "/", ":" }
\* The URLs of the docstring of _split_url; a word stands for its letters.
DocUrls == { << "http", ":", "/", "/", "foo.com", "/", "bar" >>,
             << "foo.com", ":", "bar" >>,
             << "/", "foo", "/", "bar" >>,
             << "foo", "/" >> }
\* URLs whose last segment is '.' or '..'.
DotUrls == { << "a", "/", "." >>, << "a", "/", ".", "." >> }
AllUrls == DocUrls \cup DotUrls \cup UNION { [1..n -> UrlChars] : n \in 0..MaxUrlLen }
\* The cache base directories.
Roots == { "cache", "cache2" }

\* os.path.join(self._basedir, subdir, reponame)
slot_path(root, url) ==
    << root, repodir_of(url).subdir, repodir_of(url).reponame >>

\* The directory the slot path names for os.path.exists and shutil.rmtree:
\* an empty name and '.' name the subdirectory of the base, '..' names the
\* cache base directory.
slot_dir(root, url) ==
    LET d == repodir_of(url)
    IN  IF d.reponame \in { << >>, << "." >> } THEN << root, d.subdir >>
        ELSE IF d.reponame = << ".", "." >> THEN << root >>
        ELSE << root, d.subdir, d.reponame >>

\* repodir + '.lock': the suffix is appended to the string that
\* os.path.join built, whose last component is the name.
lock_file(root, url) ==
    LET d == repodir_of(url)
    IN  << root, d.subdir, d.reponame \o << ".lock" >> >>

\* The file f lies in the directory d or below it: shutil.rmtree(d)
\* removes it.
Inside(f, d) == Len(d) < Len(f) /\ SubSeq(f, 1, Len(d)) = d

\* The first statements of CachedRepo.__init__ for two URLs: the slot
\* paths are computed, and nothing else is done.
ResolveUrls(root, u1, u2) ==
    /\ ~resolve.done
    /\ resolve' = [done |-> TRUE, root |-> root, urls |-> << u1, u2 >>,
                paths |-> << slot_path(root, u1), slot_path(root, u2) >>]

\* The variables the slot path computation does not touch.
urlframe == << vars, gitvars, svcvars, wtm, outfiles, fork, gitrefs, refcall,
               taginfo >>

UrlNext ==
    \E root \in Roots, u1 \in AllUrls, u2 \in AllUrls :
        ResolveUrls(root, u1, u2) /\ UNCHANGED urlframe

UrlSpec == HelperInit /\ [][UrlNext]_allvars

\* ---------------------------------------------------- set_ref and get_ref
\* The refs that are set and read.
RefNames == { "MY_REF", "refs/heads/alias", "refs/heads/master" }
\* The values that start with 'refs/'.
RefPaths == { "refs/heads/alias", "refs/heads/master", "refs/heads/none" }
\* The object ids: of an object of the repository, and of no object.
ObjectIds == { "1c4364bb639d32815c9845c43bc024ad9990054a",
               "1234567890123456789012345678901234567890" }
\* A value that starts with 'refs/' and is the name of no ref: git
\* symbolic-ref refuses it.
BadRefPath == "refs/"
\* A value that is neither.
NoRefValue == "master"
RefValues == RefPaths \cup ObjectIds \cup { BadRefPath, NoRefValue }
startswith_refs(value) == value \in RefPaths \cup { BadRefPath }

\* What a ref file holds: "ref: <value>", or the value as it was written.
SymRef(value) == [sym |-> TRUE, value |-> value]
RawRef(value) == [sym |-> FALSE, value |-> value]
IsSymRef(name) == name \in DOMAIN gitrefs /\ gitrefs[name].sym

\* The ref a chain of symbolic refs ends at, None when the chain comes back
\* to a ref it went through.
RECURSIVE chain_end(_, _)
chain_end(name, seen) ==
    IF name \in seen THEN None
    ELSE IF IsSymRef(name) THEN chain_end(gitrefs[name].value, seen \cup { name })
    ELSE name

\* git symbolic-ref <ref>: the ref the symbolic ref refers to, in the end;
\* None for its failure, on a ref that is there not or is no symbolic ref.
git_symbolic_ref(ref) ==
    IF IsSymRef(ref) THEN chain_end(ref, {}) ELSE None

\* rev_parse(ref): the id the ref resolves to; None for its
\* GitRepositoryError.
ref_rev_parse(ref) ==
    LET end == chain_end(ref, {})
    IN  IF end # None /\ end \in DOMAIN gitrefs /\ gitrefs[end].value \in ObjectIds
        THEN gitrefs[end].value
        ELSE None

\* MirrorGitRepository.set_ref: git symbolic-ref for a value that starts
\* with 'refs/', the value written into the ref file for any other; the
\* IOError of the write is raised as GitRepositoryError.
SetRef(ref, value, ok) ==
    /\ IF startswith_refs(value) /\ value = BadRefPath
       THEN /\ UNCHANGED gitrefs
            /\ refcall' = [fn |-> "set_ref", ref |-> ref, value |-> value,
                           exc |-> GitRepositoryError, val |-> None]
       ELSE IF startswith_refs(value)
       THEN /\ gitrefs' = (ref :> SymRef(value)) @@ gitrefs
            /\ refcall' = [fn |-> "set_ref", ref |-> ref, value |-> value,
                           exc |-> None, val |-> None]
       ELSE IF ok
       THEN /\ gitrefs' = (ref :> RawRef(value)) @@ gitrefs
            /\ refcall' = [fn |-> "set_ref", ref |-> ref, value |-> value,
                           exc |-> None, val |-> None]
       ELSE /\ UNCHANGED gitrefs
            /\ refcall' = [fn |-> "set_ref", ref |-> ref, value |-> value,
                           exc |-> GitRepositoryError, val |-> None]

\* A get_ref that resolves every ref to an id.
GetRefResolved(ref) ==
    /\ refcall' = [fn |-> "get_ref", ref |-> ref, value |-> None,
                   exc |-> IF ref_rev_parse(ref) = None
                           THEN GitRepositoryError ELSE None,
                   val |-> ref_rev_parse(ref)]
    /\ UNCHANGED gitrefs

\* MirrorGitRepository.get_ref: what git symbolic-ref prints, and
\* rev_parse(ref) when it fails.
GetRef(ref) ==
    /\ LET target == git_symbolic_ref(ref)
           val == IF target # None THEN target ELSE ref_rev_parse(ref)
       IN  refcall' = [fn |-> "get_ref", ref |-> ref, value |-> None,
                       exc |-> IF val = None THEN GitRepositoryError ELSE None,
                       val |-> val]
    /\ UNCHANGED gitrefs

\* The variables set_ref and get_ref do not touch.
refframe == << vars, gitvars, svcvars, wtm, outfiles, fork, resolve, taginfo >>

RefNext ==
    \/ \E ref \in RefNames, value \in RefValues, ok \in BOOLEAN :
            SetRef(ref, value, ok) /\ UNCHANGED refframe
    \/ \E ref \in RefNames : GetRef(ref) /\ UNCHANGED refframe

RefSpec == HelperInit /\ [][RefNext]_allvars

\* ------------------------------------------------------------ get_tag_info
\* The lines of a tag message at most.
MaxMsgLines == 4
\* The lines git cat-file prints before the message.
ObjectLine == "object 1c4364bb639d32815c9845c43bc024ad9990054a"
TypeLine == "type commit"
TagLine == "tag tag3"
TaggerLine == "tagger John Doe <j@example.com> 1390000000 +0200"
\* The lines of a message: the blank line, two lines of text, and lines
\* that read as the lines before the message do.
MsgLines == { "", "Tag", "body", TagLine, TaggerLine }
Messages == UNION { [1..n -> MsgLines] : n \in 0..MaxMsgLines }
\* The objects get_tag_info is called on: annotated tags with a tagger
\* line and without one, and an object that is no annotated tag.
TagObjects ==
    { [is_tag |-> TRUE, has_tagger |-> t, msg |-> m] :
            t \in BOOLEAN, m \in Messages } \cup { NoTag }

\* stdout.splitlines() of git cat-file tag: the lines before the message,
\* a blank line, the message.
cat_file_lines(tag) ==
    << ObjectLine, TypeLine, TagLine >>
        \o (IF tag.has_tagger THEN << TaggerLine >> ELSE << >>)
        \o << "" >> \o tag.msg

\* tagger_re.match(line).groupdict(), NoTagger when there is no match.
tagger_match(line) ==
    IF line = TaggerLine
    THEN [name |-> "John Doe", email |-> "j@example.com",
          date |-> "1390000000 +0200"]
    ELSE NoTagger
\* line.split(' ', 1)[1] of a line that starts with 'tag '.
startswith_tag(line) == line = TagLine
tagname_of(line) == "tag3"

\* The loop over the lines before the message: i is the line it is at,
\* info what it has found; num is the line it stopped at.
RECURSIVE header_loop(_, _, _)
header_loop(lines, i, info) ==
    IF i > Len(lines) THEN [info EXCEPT !.num = Len(lines)]
    ELSE LET found == [info EXCEPT
                        !.tagger = IF tagger_match(lines[i]) # NoTagger
                                   THEN tagger_match(lines[i]) ELSE @,
                        !.tagname = IF startswith_tag(lines[i])
                                    THEN tagname_of(lines[i]) ELSE @,
                        !.num = i]
         IN  IF lines[i] = "" THEN found ELSE header_loop(lines, i + 1, found)

\* The loop over the subject: num stays as it is when there is no line
\* left to go over.
RECURSIVE subject_loop(_, _, _, _)
subject_loop(lines, i, num, subject_lines) ==
    IF i > Len(lines) THEN [num |-> num, subject_lines |-> subject_lines]
    ELSE IF lines[i] = "" THEN [num |-> i, subject_lines |-> subject_lines]
    ELSE subject_loop(lines, i + 1, i, Append(subject_lines, lines[i]))

\* ' '.join(subject_lines).
RECURSIVE join_spaces(_)
join_spaces(subject_lines) ==
    IF Len(subject_lines) = 0 THEN << >>
    ELSE IF Len(subject_lines) = 1 THEN subject_lines
    ELSE << Head(subject_lines), " " >> \o join_spaces(Tail(subject_lines))

\* A body that starts at the blank line after the subject.
body_from_blank(lines, num) ==
    IF num > Len(lines) THEN << >>
    ELSE LET rest == SubSeq(lines, num, Len(lines))
         IN  [k \in 1..(2 * Len(rest)) |->
                IF k % 2 = 1 THEN rest[(k + 1) \div 2] ELSE "\n"]

\* ''.join([line + '\n' for line in lines[num+1:]]).
body_of(lines, num) ==
    LET rest == SubSeq(lines, num + 1, Len(lines))
    IN  [k \in 1..(2 * Len(rest)) |->
            IF k % 2 = 1 THEN rest[(k + 1) \div 2] ELSE "\n"]

\* MirrorGitRepository.get_tag_info.
GetTagInfo(tag) ==
    /\ taginfo.pos = "idle"
    /\ IF ~tag.is_tag
       THEN taginfo' = [TagIdle EXCEPT !.pos = "done", !.tag = tag,
                                       !.exc = GitRepositoryError]
       ELSE LET lines == cat_file_lines(tag)
                info == header_loop(lines, 1,
                            [tagger |-> NoTagger, tagname |-> None, num |-> 0])
                subj == subject_loop(lines, info.num + 1, info.num, << >>)
            IN  taginfo' = [pos |-> "done", tag |-> tag, exc |-> None,
                            tagger |-> info.tagger, tagname |-> info.tagname,
                            subject |-> join_spaces(subj.subject_lines),
                            body |-> body_of(lines, subj.num)]

\* The caller has the info, or the exception.
TagInfoReturn ==
    /\ taginfo.pos = "done"
    /\ taginfo' = TagIdle

\* The variables get_tag_info does not touch.
tagframe == << vars, gitvars, svcvars, wtm, outfiles, fork, resolve, gitrefs,
               refcall >>

TagNext ==
    \/ \E tag \in TagObjects : GetTagInfo(tag) /\ UNCHANGED tagframe
    \/ TagInfoReturn /\ UNCHANGED tagframe

TagSpec == HelperInit /\ [][TagNext]_allvars

\* ------------------------------------------------------------ vocabulary
\* The steps of __init__ that read or change the slot directory.
SlotSteps == { "inspect", "rmtree", "fetch", "clone" }

\* The handle states of the specification: Open and Closed.
IsOpen(h) == pc[h] = "ready" /\ lock[h] = "held" /\ repo[h].set
IsClosed(h) == pc[h] = "ready" /\ lock[h] = None /\ ~repo[h].set

\* Handle h takes the step that leaves position p.
Leaves(h, p) == pc[h] = p /\ pc'[h] # p

\* ---------------------------------------------------------------- claims
\* C1: at every moment at most one handle holds the exclusive lock of a
\* slot's lock file, whatever processes the handles live in.
C1_OneLockHolder ==
    \A h1, h2 \in Handles :
        (h1 # h2 /\ pc[h1] # "new" /\ pc[h2] # "new" /\ repodir[h1] = repodir[h2])
            => ~(lock[h1] = "held" /\ lock[h2] = "held")

\* A handle of another process waits in flock while the holder is at work.
C1_Witness ==
    \E h1, h2 \in Handles :
        /\ proc[h1] # proc[h2]
        /\ repodir[h1] = repodir[h2]
        /\ lock[h1] = "held"
        /\ pc[h2] = "flock" /\ lock[h2] = "open"

\* C2: every slot step of an open (existence check, opening, deletion,
\* fetch, clone) runs while the handle holds the lock, so the slot steps of
\* two opens of one slot are never in progress at the same time.
C2_SlotStepsSerialized ==
    /\ \A h \in Handles : pc[h] \in SlotSteps => lock[h] = "held"
    /\ \A h1, h2 \in Handles :
        (h1 # h2 /\ repodir[h1] = repodir[h2])
            => ~(pc[h1] \in SlotSteps /\ pc[h2] \in SlotSteps)

\* The second open waits while the first is cloning.
C2_Witness ==
    \E h1, h2 \in Handles :
        /\ repodir[h1] = repodir[h2]
        /\ pc[h1] = "clone"
        /\ pc[h2] = "flock"

\* C3: the lock is not re-entrant: a handle gets the lock only when no other
\* handle of its own process holds the lock of the same slot.
C3_NotReentrant ==
    [][ \A h \in Handles :
            (pc[h] = "flock" /\ lock'[h] = "held")
                => ~\E o \in SameLockFile(h) : proc[o] = proc[h] /\ lock[o] = "held"
      ]_vars

\* A second handle of one process waits while the first is open.
C3_Witness ==
    \E h1, h2 \in Handles :
        /\ h1 # h2
        /\ proc[h1] = proc[h2]
        /\ repodir[h1] = repodir[h2]
        /\ IsOpen(h1)
        /\ pc[h2] = "flock" /\ lock[h2] = "open"

\* C4: on a closed handle update_working_copy, repo and repodir raise
\* CachedRepoError (close itself returns nothing), and a call on a closed
\* handle leaves the slot as it is.
C4_ClosedHandleFails ==
    /\ [](\A h \in Handles :
            (pc[h] = "ready" /\ lock[h] = None) => last[h] \in { None, CachedRepoError })
    /\ [][ \A h \in Handles :
            (pc[h] = "ready" /\ lock[h] = None /\ pc'[h] = "ready" /\ last'[h] # last[h])
                => slot' = slot
         ]_vars

\* A call was made on a closed handle.
C4_Witness ==
    \E h \in Handles : IsClosed(h) /\ last[h] = CachedRepoError

\* C5: a built handle is either Open (lock held, repository set) or Closed
\* (lock released, repository cleared); Closed is left only by the
\* destruction of the object, and a close of a closed handle returns
\* nothing and changes nothing.
C5_CloseTerminal ==
    /\ [](\A h \in Handles : pc[h] = "ready" => (IsOpen(h) \/ IsClosed(h)))
    /\ [][ \A h \in Handles :
            IsClosed(h) =>
                /\ IsClosed(h)' \/ pc'[h] = "new"
                /\ (pc'[h] = "ready" /\ last[h] # None /\ last'[h] = None) =>
                        UNCHANGED << pc, hbare, repodir, lock, repo, proc, slot,
                                     subdirs, lockfiles, writable, net >>
         ]_vars

\* A handle is closed and another handle has taken the lock it released.
C5_Witness ==
    \E h1, h2 \in Handles :
        /\ IsClosed(h1) /\ last[h1] = None
        /\ repodir[h1] = repodir[h2]
        /\ lock[h2] = "held"


\* The slot of handle h, and whether it is an intact repository of the
\* mode the running constructor of h was asked for.
SlotOf(h) == slot[repodir[h]]
IntactFor(h) == SlotOf(h).kind = "repo" /\ SlotOf(h).bare = hbare[h]

\* C6: an open that finds the slot an intact repository of the requested
\* mode goes to force_fetch without touching the slot; from there it never
\* deletes or clones, and when it returns the slot is the same repository,
\* now holding every commit of the remote. Every handle resolves its URL to
\* a slot path of the cache.
C6_ReopenFetches ==
    /\ [](\A h \in Handles : pc[h] # "new" => repodir[h] \in SlotPaths)
    /\ [][ \A h \in Handles :
            /\ (Leaves(h, "inspect") /\ IntactFor(h))
                    => (pc'[h] = "fetch" /\ slot' = slot)
            /\ Leaves(h, "fetch") => pc'[h] \in { "ready", "failed" }
            /\ (Leaves(h, "fetch") /\ pc'[h] = "ready")
                    => /\ SlotOf(h)' = [ SlotOf(h) EXCEPT !.content = "current" ]
                       /\ SlotOf(h).kind = "repo"
         ]_vars

\* A reopen is about to fetch into a slot an earlier open created and that
\* lacks commits pushed to the remote since.
C6_Witness ==
    \E h \in Handles :
        pc[h] = "fetch" /\ IntactFor(h) /\ SlotOf(h).content = "stale"

\* C7: an open that finds a directory at the slot path that does not open as
\* a repository or has the other bare mode deletes the slot and clones; and
\* every handle an open returns holds a repository of the requested mode on
\* a slot that is an up-to-date repository of that mode.
C7_MismatchRebuilt ==
    [][ \A h \in Handles :
            /\ (Leaves(h, "inspect") /\ slot_exists(repodir[h]) /\ ~IntactFor(h))
                    => (pc'[h] = "rmtree" /\ ~repo'[h].set)
            /\ (Leaves(h, "rmtree") /\ pc'[h] # "failed")
                    => (pc'[h] = "clone" /\ SlotOf(h)' = AbsentSlot)
            /\ (pc[h] # "ready" /\ pc'[h] = "ready")
                    => /\ repo'[h] = RepoObj(hbare[h])
                       /\ SlotOf(h)'.kind = "repo"
                       /\ SlotOf(h)'.bare = hbare[h]
                       /\ SlotOf(h)'.content = "current"
                       /\ ~SlotOf(h)'.broken
      ]_vars

\* An open is deleting a slot that is a repository of the other mode.
C7_Witness ==
    \E h \in Handles :
        pc[h] = "rmtree" /\ SlotOf(h).kind = "repo" /\ SlotOf(h).bare # hbare[h]

Raised(h) == pc'[h] = "failed" /\ last'[h] = CachedRepoError

C10_DeleteFailureSurfaces ==
    [][ \A h \in Handles :
            /\ (Leaves(h, "rmtree") /\ ~writable) => (Raised(h) /\ slot' = slot)
            /\ pc[h] = "failed" => pc'[h] # "clone"
      ]_vars

\* An open failed in the deletion: the lock is held, no repository object
\* is set and the slot that was to be deleted is still a fetched repository.
C10_Witness ==
    \E h \in Handles :
        /\ pc[h] = "failed" /\ ~repo[h].set /\ lock[h] = "held"
        /\ SlotOf(h).kind = "repo" /\ SlotOf(h).content # "empty"

\* C11: an open is at its lock file only once the parent directory of the
\* slot exists; when the directory cannot be created the open raises
\* CachedRepoError and has opened no lock file; when the lock file cannot be
\* opened the open raises CachedRepoError with the slot as it was, and a
\* failed open never inspects, deletes, fetches or clones.
C11_DirThenLock ==
    /\ [](\A h \in Handles :
            /\ pc[h] \in { "acquire", "flock" } \cup SlotSteps
                    => dirname(repodir[h]) \in subdirs
            /\ pc[h] \in { "new", "init_cache_dir", "makedirs", "acquire" }
                    => lock[h] = None)
    /\ [][ \A h \in Handles :
            /\ (Leaves(h, "makedirs") /\ ~(writable /\ dirname(repodir[h]) \notin subdirs))
                    => (Raised(h) /\ lock'[h] = None /\ lockfiles' = lockfiles)
            /\ (Leaves(h, "acquire") /\ ~(writable \/ repodir[h] \in lockfiles))
                    => (Raised(h) /\ lock'[h] = None /\ slot' = slot)
            /\ pc[h] = "failed" => pc'[h] \notin SlotSteps
         ]_vars

\* An open failed because the parent directory could not be created: the
\* directory and the lock file do not exist.
C11_Witness ==
    \E h \in Handles :
        /\ pc[h] = "failed" /\ last[h] = CachedRepoError /\ lock[h] = None
        /\ dirname(repodir[h]) \notin subdirs
        /\ repodir[h] \notin lockfiles

\* The running call takes the step that leaves position p.
StepLeaves(p) == step = p /\ step' # p

\* C12: when the all-refs fetch has succeeded and the fetch of the remote's
\* HEAD fails, no exception leaves the step: FETCH_HEAD is set to the
\* all-zero id and force_fetch goes on to its finally clause, which raises
\* nothing on account of the fetch; the open that called it returns a handle.
C12_HeadFetchAbsorbed ==
    [][ /\ (StepLeaves("ff_fetch_head") /\ ~(net /\ remote_head_ok))
                => (FETCH_HEAD' = Zero /\ exc' = None /\ step' = "ff_finally")
        /\ (StepLeaves("ff_finally") /\ exc = None)
                => /\ exc' # GitRepositoryError
                   /\ ~refs_hack => exc' = None
        /\ (StepLeaves("ff_done") /\ exc = None)
                => (handle' = "open" /\ result'.exc = None)
      ]_<< vars, gitvars >>

\* An open has returned a handle on a slot whose FETCH_HEAD is the all-zero
\* id: the fetch of the remote's HEAD had failed.
C12_Witness ==
    /\ handle = "open" /\ result.val = "handle" /\ result.exc = None
    /\ FETCH_HEAD = Zero
    /\ master \in Commits

\* C13: when force_fetch is over, by return or by exception, HEAD has the
\* value it had when force_fetch was called, and between calls HEAD never
\* names the temporary branch.
C13_HeadRestored ==
    /\ step = "ff_done" => HEAD = orig_head
    /\ step = "idle" => HEAD # TmpHead

\* C14: whatever fails in the refs preparation or in the all-refs fetch,
\* the exception that leaves force_fetch is a GitRepositoryError.
C14_FetchErrorType ==
    step = "ff_done" => exc \in { None, GitRepositoryError }

UpdateSteps == { "uwc_head", "uwc_clean", "uwc_resolve", "uwc_reset", "uwc_submodules" }
FetchSteps == { "ff_head", "ff_refs", "ff_fetch", "ff_fetch_head", "ff_finally", "ff_done" }

\* C16: update_working_copy on an open handle of a bare repository ends at
\* once with CachedRepoError, whatever the commit-ish, with HEAD, the refs
\* and the files of the slot as they were; no step of update_working_copy
\* runs on a bare repository.
C16_BareUpdateRefused ==
    /\ [](bare_mode => step \notin UpdateSteps)
    /\ [][ (/\ step = "idle" /\ handle = "open" /\ handle' = "open" /\ bare_mode
            /\ << step, result, rev >>' # << step, result, rev >>)
                => /\ result' = [exc |-> CachedRepoError, val |-> None, arg |-> None]
                   /\ step' = "idle"
                   /\ UNCHANGED gitdirvars
         ]_<< vars, gitvars >>

\* update_working_copy was refused on an open handle of a bare repository.
C16_Witness ==
    /\ handle = "open" /\ bare_mode /\ master \in Commits
    /\ result.exc = CachedRepoError

\* What a commit-ish resolves to when HEAD is the remote's HEAD of the
\* last fetch.
resolved_at_fetch_head(name) ==
    CASE name = "HEAD" -> FETCH_HEAD
      [] name = "HEAD~1" -> parent(FETCH_HEAD)
      [] name = "master" -> local_master
      [] OTHER -> None

\* C17: the id update_working_copy returns is the commit-ish resolved with
\* HEAD at FETCH_HEAD, whatever was checked out before; the fetch of HEAD
\* records the remote's HEAD commit in FETCH_HEAD, and while the handle is
\* open and no fetch runs FETCH_HEAD and the fetched branch stay as they
\* are, so a repeated call returns the same id.
C17_ResolvesAtFetchHead ==
    [][ /\ (step \in UpdateSteps /\ step' = "idle" /\ result'.exc = None)
                => /\ result'.val \in Commits
                   /\ result'.val = resolved_at_fetch_head(rev)
        /\ (StepLeaves("ff_fetch_head") /\ net /\ remote_head_ok)
                => FETCH_HEAD' = remote_master
        /\ (handle = "open" /\ step \notin FetchSteps)
                => UNCHANGED << FETCH_HEAD, master, refs >>
      ]_<< vars, gitvars >>

\* update_working_copy('HEAD') is about to resolve HEAD, which it has set
\* to the remote's HEAD c2, while the files checked out are those of c1.
C17_Witness ==
    /\ step = "uwc_resolve" /\ rev = "HEAD"
    /\ worktree = "c1" /\ FETCH_HEAD = "c2" /\ HEAD = "c2"

\* C18 as stated: a call of update_working_copy with a commit-ish that
\* does not resolve leaves the checkout of the slot as it was: HEAD, the
\* files checked out and the files lying around.
C18_CheckoutUntouched ==
    [][ (step \in UpdateSteps /\ rev = "foo/bar")
            => UNCHANGED << HEAD, worktree, untracked >>
      ]_<< vars, gitvars >>

\* C18 amended: a commit-ish that does not resolve ends the call with
\* CachedRepoError naming the commit-ish and with the checked out files of
\* git's tree as they were; by then HEAD has been set to FETCH_HEAD and
\* force_clean has removed the files git does not track.
C18_TrackedFilesUntouched ==
    [][ /\ (StepLeaves("uwc_resolve") /\ git_rev_parse(rev) = None)
                => /\ result' = [exc |-> CachedRepoError, val |-> None, arg |-> rev]
                   /\ step' = "idle"
                   /\ worktree' = worktree
                   /\ HEAD' = FETCH_HEAD
        /\ StepLeaves("uwc_clean") => ~untracked'
        /\ step \in { "idle", "uwc_head", "uwc_clean" } => worktree' = worktree
      ]_<< vars, gitvars >>

\* update_working_copy('foo/bar') has failed: HEAD is at the remote's HEAD
\* c2 and the files checked out are still those of c1.
C18_Witness ==
    /\ step = "idle" /\ handle = "open"
    /\ result = [exc |-> CachedRepoError, val |-> None, arg |-> "foo/bar"]
    /\ worktree = "c1" /\ HEAD = "c2"

\* C19: an invalid HEAD of the remote makes no fetch step of an open
\* raise, on the clone path or the fetch path; every open non-bare handle
\* has the fetched branch and a FETCH_HEAD, all-zero when the remote's HEAD
\* was invalid; with FETCH_HEAD all-zero update_working_copy('HEAD') raises
\* CachedRepoError, while update_working_copy('master') resolves and
\* returns the commit of master (unless fetching a submodule fails).
C19_InvalidRemoteHead ==
    /\ []((handle = "open" /\ ~bare_mode)
            => (local_master \in Commits /\ FETCH_HEAD \in Commits \cup { Zero }))
    /\ [][ /\ (step \in { "ff_fetch", "ff_fetch_head" } /\ net /\ origin)
                    => exc' = None
           /\ (StepLeaves("ff_fetch_head") /\ net /\ ~remote_head_ok)
                    => FETCH_HEAD' = Zero
           /\ (StepLeaves("uwc_resolve") /\ FETCH_HEAD = Zero /\ rev = "HEAD")
                    => result' = [exc |-> CachedRepoError, val |-> None, arg |-> "HEAD"]
           /\ (StepLeaves("uwc_resolve") /\ rev = "master")
                    => (step' = "uwc_reset" /\ sha' = local_master)
           /\ (StepLeaves("uwc_reset") /\ ~submodules)
                    => result' = [exc |-> None, val |-> sha, arg |-> None]
           /\ (StepLeaves("uwc_submodules") /\ (net \/ ~has_submodules(worktree)))
                    => result' = [exc |-> None, val |-> sha, arg |-> None]
         ]_<< vars, gitvars >>

\* With the remote's HEAD invalid an open has returned a handle and
\* update_working_copy has checked out the commit of master.
C19_Witness ==
    /\ handle = "open" /\ ~remote_head_ok /\ FETCH_HEAD = Zero
    /\ result.exc = None /\ result.val = master /\ master \in Commits
    /\ worktree = master /\ HEAD = master

\* C20: every open and every update_working_copy that fails ends with
\* CachedRepoError.
C20_OnlyCachedRepoError ==
    result.exc \in { None, CachedRepoError }

\* ------------------------------------------------------- the main flow
\* The steps of main inside gbp_export and write_treeish_meta.
ExportSteps == { "export_dirs", "export_uid", "export_chown", "export_rpm",
                 "export_deb", "export_move", "export_finally", "meta" }

\* C21: gbp_export and write_treeish_meta are entered, and an exporter or
\* the writer has run, only in a run whose open built the handle and whose
\* update_working_copy returned the id that is checked out and that the
\* exporter is given; a run whose open or update_working_copy raised
\* CachedRepoError has returned 1 and has run no exporter and no writer.
C21_ExportAfterReset ==
    /\ (mstep \in ExportSteps \/ ran # {}) =>
            /\ handle = "open"
            /\ result.exc = None
            /\ result.val \in Commits
            /\ worktree = result.val
            /\ HEAD = result.val
            /\ args_revision = result.val
    /\ (mstep = "done" /\ result.exc = CachedRepoError) =>
            /\ ret.exc = None
            /\ ret.code = 1
            /\ ran = {}

\* An exporter has run on the working copy the update left.
C21_Witness ==
    /\ mstep = "export_deb"
    /\ "rpm" \in ran
    /\ worktree = "c2"
    /\ args_revision = "c2"

\* C22: a run of main that is over has returned a code and no exception
\* has left it: 0 only when the open, the update, the exporters that ran
\* and the writer, if it ran, all succeeded; 1 after a CachedRepoError;
\* 2 only after the RPM exporter ran and the Debian exporter did not; 3
\* only after the Debian exporter ran.
C22_ExitCodes ==
    mstep = "done" =>
        /\ ret.exc = None
        /\ ret.code \in { EXIT_OK, EXIT_ERR_SERVICE, EXIT_ERR_RPM_EXPORT,
                          EXIT_ERR_DEB_EXPORT }
        /\ ret.code = EXIT_OK =>
                /\ result.exc = None
                /\ "meta" \in ran => "meta" \in outdir.files
        /\ result.exc = CachedRepoError => ret.code = EXIT_ERR_SERVICE
        /\ ret.code = EXIT_ERR_RPM_EXPORT => "rpm" \in ran /\ "deb" \notin ran
        /\ ret.code = EXIT_ERR_DEB_EXPORT => "deb" \in ran

\* C23: a run of main that has returned a non-zero code has moved no
\* exported file into the output directory.
C23_NothingPlacedOnFailure ==
    (mstep = "done" /\ ret.exc = None /\ ret.code # EXIT_OK) => "placed" \notin ran

\* --------------------------------------------------- the helper functions
\* A step in which a call of write_treeish_meta is made.
WtmCalled == wtm.pos \in { "idle", "done" } /\ wtm' # wtm
\* A step in which a call of write_treeish_meta ends.
WtmEnds == wtm' # wtm /\ wtm'.pos = "done"
\* The file the call is to write is there.
WtmTargetExists == wtm'.outdir = "." /\ wtm'.filepath \in DOMAIN outfiles

\* C24 as stated: every call of write_treeish_meta that finds a file with
\* the basename of filename in outdir ends with GbpServiceError and leaves
\* the files as they are, and every call for an output directory that does
\* not exist ends with GbpServiceError.
C24_AlwaysServiceError ==
    [][ /\ (WtmCalled /\ WtmTargetExists) =>
                /\ wtm'.pos = "done"
                /\ wtm'.exc = GbpServiceError
                /\ outfiles' = outfiles
        /\ (WtmEnds /\ wtm'.outdir # ".") =>
                /\ wtm'.exc = GbpServiceError
                /\ outfiles' = outfiles
      ]_allvars

\* C24 amended: a call of write_treeish_meta for a treeish that names an
\* object of the repository ends with GbpServiceError and leaves the files
\* as they are when it finds a file with the basename of filename in
\* outdir, and ends with GbpServiceError when the output directory does
\* not exist; a call for a treeish that names no object ends with
\* GitRepositoryError, whatever is in outdir, and writes nothing.
C24_NeverOverwrites ==
    [][ /\ (WtmCalled /\ WtmTargetExists) =>
                /\ wtm'.pos = "done"
                /\ wtm'.exc = IF get_obj_type(wtm'.treeish) = None
                              THEN GitRepositoryError ELSE GbpServiceError
                /\ outfiles' = outfiles
        /\ (WtmEnds /\ wtm'.outdir # ".") =>
                /\ wtm'.exc = IF get_obj_type(wtm'.treeish) = None
                              THEN GitRepositoryError ELSE GbpServiceError
                /\ outfiles' = outfiles
        /\ (WtmCalled /\ get_obj_type(wtm'.treeish) = None) =>
                /\ wtm'.pos = "done"
                /\ outfiles' = outfiles
      ]_allvars

\* A call for a commit has been refused because of a file that another
\* process wrote, and the file is as it was.
C24_Witness ==
    /\ wtm.pos = "done"
    /\ wtm.exc = GbpServiceError
    /\ wtm.treeish = << "HEAD" >>
    /\ wtm.outdir = "."
    /\ wtm.filepath \in DOMAIN outfiles
    /\ outfiles[wtm.filepath] = Foreign

\* The annotated tags of the commit of HEAD.
AnnotatedTags == << "tag", "tag2" >>

\* C25: every file write_treeish_meta has written has the key treeish; it
\* has the key tag exactly when the treeish is a tag object; for a tag and
\* for a commit it has the key commit and, at the top level, the key tags
\* with the list of the annotated tags of the commit; for a tree it has
\* none of tag, tags and commit.
C25_MetaKeys ==
    \A name \in DOMAIN outfiles :
        LET meta == outfiles[name]
            obj_type == get_obj_type(meta["treeish"])
        IN  meta # Foreign =>
                /\ "treeish" \in DOMAIN meta
                /\ "tag" \in DOMAIN meta <=> obj_type = "tag"
                /\ obj_type \in { "tag", "commit" } =>
                        /\ "commit" \in DOMAIN meta
                        /\ "tags" \in DOMAIN meta
                        /\ meta["tags"] = AnnotatedTags
                /\ obj_type = "tree" =>
                        DOMAIN meta \cap { "tag", "tags", "commit" } = {}

\* C26: a child of fork_call that is gone has left an answer for the
\* caller, and a call that is over ran func in the child and returned its
\* return value, or raised GbpChildBTError with the class of what func
\* raised as typ, or raised GbpServiceError without having run func, for a
\* user or group name there is no entry for or for ids the child could not
\* take.
C26_ForkCallContract ==
    /\ fork.pos = "exited" => fork.queue # << >>
    /\ fork.pos = "done" =>
        \/ /\ fork.exc = None
           /\ fork.ran_in = "child"
           /\ fork.func.raises = None
           /\ fork.val = fork.func.returns
        \/ /\ fork.exc = GbpChildBTError
           /\ fork.ran_in = "child"
           /\ fork.func.raises # None
           /\ fork.typ = fork.func.raises
        \/ /\ fork.exc = GbpServiceError
           /\ fork.ran_in = None
           /\ \/ "unknown" \in { fork.user, fork.group }
              \/ fork.uid > 0 \/ fork.gid > 0

\* The URL without its trailing slashes.
Stripped(url) ==
    LET keep == { k \in 0..Len(url) : \A j \in (k + 1)..Len(url) : url[j] = "/" }
    IN  SubSeq(url, 1, CHOOSE k \in keep : \A j \in keep : k <= j)
\* Where the stripped URL is cut: at its last slash, at its last colon when
\* it has no slash, nowhere (0) when it has neither.
LastOf(s, sep) ==
    IF \E i \in 1..Len(s) : s[i] = sep
    THEN CHOOSE i \in 1..Len(s) : s[i] = sep /\ \A j \in (i + 1)..Len(s) : s[j] # sep
    ELSE 0
CutAt(s) == IF LastOf(s, "/") # 0 THEN LastOf(s, "/") ELSE LastOf(s, ":")
\* The base and the name the specification gives the URL.
BaseOf(url) ==
    IF CutAt(Stripped(url)) = 0 THEN << >>
    ELSE SubSeq(Stripped(url), 1, CutAt(Stripped(url)) - 1)
NameOf(url) ==
    SubSeq(Stripped(url), CutAt(Stripped(url)) + 1, Len(Stripped(url)))

\* C27: the slot path of a URL is root/<sha1 of base>/<name>, base and name
\* being the parts of the URL, stripped of its trailing slashes, before and
\* after its last slash, or its last colon when it has no slash, and base
\* being empty when it has neither; the same root and URL give the same
\* path; computing it changes nothing on disk; the URLs of the docstring
\* split as the docstring says.
C27_SlotPath ==
    /\ resolve.done =>
        /\ \A i \in 1..2 :
                resolve.paths[i] = << resolve.root,
                                      sha1_hexdigest(BaseOf(resolve.urls[i])),
                                      NameOf(resolve.urls[i]) >>
        /\ resolve.urls[1] = resolve.urls[2] => resolve.paths[1] = resolve.paths[2]
        /\ slot = [d \in SlotPaths |-> AbsentSlot] /\ subdirs = {} /\ lockfiles = {}
    /\ split_url(<< "http", ":", "/", "/", "foo.com", "/", "bar" >>)
            = << << "http", ":", "/", "/", "foo.com" >>, << "bar" >> >>
    /\ split_url(<< "foo.com", ":", "bar" >>) = << << "foo.com" >>, << "bar" >> >>
    /\ split_url(<< "foo", "/" >>) = << << >>, << "foo" >> >>

\* A URL with a colon before its last slash and a URL of slashes only have
\* been resolved.
C27_Witness ==
    /\ resolve.done
    /\ resolve.urls = << << ":", "/", "a" >>, << "/", "/" >> >>
    /\ resolve.paths[1] = << resolve.root, << "sha1", ":" >>, << "a" >> >>
    /\ resolve.paths[2] = << resolve.root, << "sha1" >>, << >> >>

GetAfterSet ==
    /\ refcall.fn = "set_ref"
    /\ refcall.exc = None
    /\ refcall'.fn = "get_ref"
    /\ refcall'.ref = refcall.ref
\* A get_ref of a ref that is not there.
GetNeverSet == refcall'.fn = "get_ref" /\ refcall'.ref \notin DOMAIN gitrefs

\* C29 as stated: get_ref(ref) after set_ref(ref, v) returns v, for every
\* v that is a ref path and every v that is an object id; get_ref of a ref
\* that was never set raises GitRepositoryError.
C29_RoundTrip ==
    [][ /\ (GetAfterSet /\ refcall.value \in RefPaths \cup ObjectIds) =>
                refcall'.exc = None /\ refcall'.val = refcall.value
        /\ GetNeverSet => refcall'.exc = GitRepositoryError
      ]_allvars

\* C29 amended: get_ref(ref) after set_ref(ref, v) returns v when v is an
\* object id, of an object there is or not, and when v is a ref path that
\* names no symbolic ref; when v names a symbolic ref, get_ref returns the
\* ref at the end of the chain of symbolic refs, which is no symbolic ref,
\* or raises GitRepositoryError when the chain leads back into itself;
\* get_ref of a ref that was never set raises GitRepositoryError.
C29_RoundTripUnlessSymbolic ==
    [][ /\ (GetAfterSet /\ refcall.value \in ObjectIds) =>
                refcall'.exc = None /\ refcall'.val = refcall.value
        /\ (GetAfterSet /\ refcall.value \in RefPaths /\ ~IsSymRef(refcall.value)) =>
                refcall'.exc = None /\ refcall'.val = refcall.value
        /\ (GetAfterSet /\ refcall.value \in RefPaths /\ IsSymRef(refcall.value)) =>
                \/ refcall'.exc = GitRepositoryError
                \/ /\ refcall'.exc = None
                   /\ refcall'.val \in RefPaths \ { refcall.value }
                   /\ ~IsSymRef(refcall'.val)
        /\ GetNeverSet => refcall'.exc = GitRepositoryError
      ]_allvars

\* get_ref has returned the id of no object, which set_ref wrote into the
\* ref file.
C29_Witness ==
    /\ refcall.fn = "get_ref"
    /\ refcall.ref = "MY_REF"
    /\ refcall.val = "1234567890123456789012345678901234567890"
    /\ gitrefs["MY_REF"] = RawRef("1234567890123456789012345678901234567890")

\* The line of a message the first blank line is at, one past the last line
\* when there is none.
FirstBlank(msg) ==
    IF \E i \in 1..Len(msg) : msg[i] = ""
    THEN CHOOSE i \in 1..Len(msg) :
            msg[i] = "" /\ \A j \in 1..(i - 1) : msg[j] # ""
    ELSE Len(msg) + 1
\* s is the lines joined by single spaces.
IsJoined(s, lines) ==
    /\ Len(s) = IF Len(lines) = 0 THEN 0 ELSE 2 * Len(lines) - 1
    /\ \A k \in 1..Len(lines) : s[2 * k - 1] = lines[k]
    /\ \A k \in 1..(Len(lines) - 1) : s[2 * k] = " "
\* s is the lines, each followed by a newline.
IsTerminated(s, lines) ==
    /\ Len(s) = 2 * Len(lines)
    /\ \A k \in 1..Len(lines) : s[2 * k - 1] = lines[k] /\ s[2 * k] = "\n"

\* C30: get_tag_info raises GitRepositoryError for an object that is no
\* annotated tag; for an annotated tag the subject is the lines of the
\* message up to its first blank line joined by single spaces, the body is
\* every line after that blank line followed by a newline, both are empty
\* for an empty message, and the name, email and date of the tagger are
\* None when the tag has no tagger line.
C30_TagInfo ==
    taginfo.pos = "done" =>
        LET tag == taginfo.tag
            fb == FirstBlank(tag.msg)
        IN  /\ ~tag.is_tag => taginfo.exc = GitRepositoryError
            /\ tag.is_tag =>
                /\ taginfo.exc = None
                /\ IsJoined(taginfo.subject, SubSeq(tag.msg, 1, fb - 1))
                /\ IsTerminated(taginfo.body,
                                SubSeq(tag.msg, fb + 1, Len(tag.msg)))
                /\ tag.msg = << >> =>
                        taginfo.subject = << >> /\ taginfo.body = << >>
                /\ ~tag.has_tagger => taginfo.tagger = NoTagger

\* get_tag_info has returned the info of a tag without a tagger line, with
\* a subject of two lines and a body that reads as a tagger line.
C30_Witness ==
    /\ taginfo.pos = "done"
    /\ taginfo.tag = [is_tag |-> TRUE, has_tagger |-> FALSE,
                      msg |-> << "Tag", "body", "", TaggerLine >>]
    /\ taginfo.subject = << "Tag", " ", "body" >>
    /\ taginfo.body = << TaggerLine, "\n" >>
    /\ taginfo.tagger = NoTagger

\* ------------------------------------------------------------ the refs hack
\* C31: while a force_fetch with refs_hack runs its fetch commands, refs is
\* the symlink to refs.alt, there is no packed-refs file, and the refspec
\* is +refs/*:refs/fetch/*; when it is over, with the fetch succeeded or
\* failed, refs is the symlink to refs.alt/fetch, unless re-pointing the
\* link itself has raised OSError.
C31_HackedRefs ==
    refs_hack =>
        /\ step \in { "ff_fetch", "ff_fetch_head", "ff_finally" } =>
                /\ refs = "alt"
                /\ ~packed_refs
                /\ refspec = HackRefspec
        /\ (step = "ff_done" /\ exc # OSError) => refs = "fetch"

\* A force_fetch with refs_hack is over on a slot whose refs was a symlink
\* already: the fetch has failed, the branch of the earlier fetch is
\* there, and refs is the symlink to refs.alt/fetch.
C31_Witness ==
    /\ step = "ff_done" /\ refs_hack
    /\ exc = GitRepositoryError
    /\ master \in Commits
    /\ refs = "fetch"

C33_UpdateOrder ==
    [][ /\ (step # "uwc_head" /\ step' = "uwc_head") => step = "idle"
        /\ (step # "uwc_clean" /\ step' = "uwc_clean") =>
                /\ step = "uwc_head"
                /\ HEAD' = FETCH_HEAD
                /\ UNCHANGED << worktree, untracked >>
        /\ (step # "uwc_resolve" /\ step' = "uwc_resolve") =>
                /\ step = "uwc_clean"
                /\ ~untracked'
                /\ UNCHANGED << HEAD, worktree >>
        /\ (step # "uwc_reset" /\ step' = "uwc_reset") =>
                /\ step = "uwc_resolve"
                /\ sha' \in Commits
                /\ sha' = git_rev_parse(rev)
                /\ worktree' = sha'
        /\ StepLeaves("uwc_reset") => (HEAD' = sha /\ worktree' = sha)
        /\ (step # "uwc_submodules" /\ step' = "uwc_submodules") =>
                (step = "uwc_reset" /\ submodules)
        /\ (StepLeaves("uwc_reset") /\ submodules) => step' = "uwc_submodules"
        /\ (step \in UpdateSteps /\ step' = "idle" /\ result'.exc = None) =>
                /\ step \in { "uwc_reset", "uwc_submodules" }
                /\ result'.val = sha
                /\ deref(HEAD') = sha
                /\ worktree' = sha
      ]_<< vars, gitvars >>

\* update_working_copy('HEAD~1') has returned the parent of the remote's
\* HEAD: HEAD and the checked out files are at it.
C33_Witness ==
    /\ step = "idle" /\ handle = "open"
    /\ result.exc = None /\ result.val = "c1"
    /\ FETCH_HEAD = "c2"
    /\ HEAD = "c1" /\ worktree = "c1"

\* ------------------------------------------------------- no poisoned slot
\* C34 as stated: once an open or an update_working_copy has failed, an
\* open that finds the remote within reach is not stopped by its fetch:
\* the all-refs fetch raises nothing and the open goes on to the fetch of
\* HEAD and to its return.
C34_NoPoisonedSlot ==
    [][ (StepLeaves("ff_fetch") /\ net)
            => (exc' = None /\ step' = "ff_fetch_head") ]_<< vars, gitvars >>

C36_LockHeldThroughExport ==
    /\ [](mstep \in { "updating" } \cup ExportSteps =>
            /\ handle = "open"
            /\ pc[Rival] \in { "new", "flock" }
            /\ lock[Rival] # "held")
    /\ [][ (mstep \in ExportSteps)
                => (UNCHANGED << HEAD, FETCH_HEAD, master, worktree, refs,
                                 packed_refs, origin >>) ]_allvars

\* The other process waits in flock while an exporter has run and the
\* next has not.
C36_Witness ==
    /\ mstep = "export_deb"
    /\ "rpm" \in ran
    /\ handle = "open"
    /\ pc[Rival] = "flock"
    /\ lock[Rival] = "open"

\* C37: for every URL the lock file lies outside the directory the slot
\* path names, so that the removal of the slot leaves the lock file of the
\* handle that removes it.
C37_LockOutsideSlot ==
    resolve.done =>
        \A i \in 1..2 :
            ~Inside(lock_file(resolve.root, resolve.urls[i]),
                    slot_dir(resolve.root, resolve.urls[i]))

\* C38: whenever the child has exited there is exactly one value on the
\* queue, func's return value with exit code _RET_FORK_OK or an exception
\* object with _RET_FORK_ERR, so that the parent's data_q.get() after
\* child.join() returns.
C38_OneValueQueued ==
    fork.pos = "exited" =>
        /\ Len(fork.queue) = 1
        /\ (fork.exitcode = 0 /\ fork.queue[1].kind = "value")
                \/ (fork.exitcode = 1
                        /\ fork.queue[1].kind \in { GbpServiceError, GbpChildBTError })

\* C39: a call with a user and a group that both differ from the caller's,
\* made by a caller who may switch to them, runs func in the child under
\* the uid and the gid asked for.
C39_BothIdsInEffect ==
    (/\ fork.pos \in { "func", "exited", "done" }
     /\ fork.privileged
     /\ fork.uid > 0 /\ fork.gid > 0
     /\ getpwuid(fork.uid))
        => /\ fork.ruid = fork.uid
           /\ fork.rgid = fork.gid
           /\ fork.pos # "func" => fork.ran_in = "child"

====
